---- MODULE Spec2Model ----
(***************************************************************************)
(* openclaw-mem0: the OSS provider's WriteQueue, pruning with the cold     *)
(* archive, the memory_search result cache, and the ReflectionEngine.      *)
(*                                                                         *)
(* Granularity: JavaScript runs one synchronous block (and the microtasks  *)
(* it schedules) at a time, so one action is one such block; an `await`    *)
(* on I/O (SQLite, the language model, the vector search) ends a block.    *)
(***************************************************************************)
EXTENDS Integers, Sequences, FiniteSets, TLC

\* ------------------------------------------------------------------ bounds
\* provider.add / provider.delete calls made by the tool handlers
MaxCalls == 2
\* memories the hot store holds when the plugin starts
MaxInitHot == 2
\* prune runs (service.start may be invoked again while a prune is running)
MaxPrunes == 1
\* memory_search executions
MaxSearches == 2
\* steps of the clock
MaxTicks == 2
\* distinct memory_search cache keys
NumKeys == 1
\* reflect() invocations
MaxReflects == 2
\* markActionFailed calls per action
MaxAttempts == 2
\* beside the searches: tool writes, and memories in the hot store at the start
RecallCalls == 1
RecallInitHot == 2
\* session keys the hooks' contexts carry
NumSessions == 1
\* agent_end events (each flush may call reflect: no more than MaxReflects)
MaxTurns == 2
\* service.start calls
MaxStarts == 2
\* memory ids and list length of what one sub-search of memory_search returns
MaxHitId == 2
MaxHits == 2
\* lengths of the query and user id strings and the limits a search-cache key is built of
MaxQueryLen == 2
MaxIdLen == 3
MaxLimit == 1
\* memories handed to buildMemoryContext
MaxRecalled == 2
\* provider instances, ensureMemory calls and _init invocations
NumProviders == 2
MaxCallers == 3
MaxInits == 2
MaxLines == 3

\* ------------------------------------------------------- program constants
SEARCH_CACHE_TTL_MS == 45000
\* MEMORY_BUDGET_RATIO is 0.15: the ratio in hundredths
MEMORY_BUDGET_RATIO == 15
MIN_MEMORY_TOKENS == 200
MAX_MEMORY_TOKENS == 4000
MEMORY_OVERHEAD == 50
SEARCH_CACHE_MAX_ENTRIES == 128
HEARTBEAT_MS == 60000
MAX_PENDING == 20
ACTION_TTL_MS == 7 * 24 * 60 * 60 * 1000
\* MEM0_CAPTURE_BATCH_MAX_MSGS = 10, the smallest value accepted (default 30)
captureBatchMaxMessages == 10
\* agent_end keeps the last 10 messages of a turn
TurnTail == 10

VARIABLES
  \* OSS provider / WriteQueue
  hot,          \* ids of the memories in the hot (vector) store
  nextMem,      \* next memory id memory.add will create; created_at grows with the id
  archive,      \* mem0-archive.jsonl: the archived memory ids, one per line
  queue,        \* WriteQueue.queue: tasks not yet shifted
  processing,   \* WriteQueue.processing
  active,       \* tasks shifted by process() and awaited (fn started, not settled)
  stats,        \* WriteQueue.stats
  nextTask,     \* tasks are numbered in enqueue order
  settled,      \* ids of the tasks whose future has been resolved or rejected
  rejected,     \* ids of the tasks whose fn threw (future rejected)
  prunes,       \* the prune() invocations
  \* memory_search
  searchCache,  \* Map in insertion order: <<[key, expiresAt, results]>>
  searches,     \* the memory_search executions
  now,          \* Date.now()
  \* ReflectionEngine
  pendingActions, \* ReflectionEngine.pendingActions
  actionsFile,    \* mem0-actions.json as saveActions wrote it last
  reflects,       \* the reflect() invocations
  injected,       \* ids of the actions before_agent_start put into a system context
  tickFired,      \* ids the heartbeat's poll returned: fired, and delivered to nobody
  hist,           \* the last calls of the engine: <<[op, id]>>, newest last
  lin,            \* the states of an engine whose calls are atomic that agree with
                  \* every result returned so far
  \* capture batching
  captureBuffers,   \* Map in insertion order: <<[key, sessionId, messages]>>
  captureTimers,    \* keys of the Map of armed flush timers, in insertion order
  currentSessionId, \* 0 for undefined
  nextTurn,         \* agent_end events are numbered as they arrive
  appended,         \* per key, the messages pushed since the buffer was created
  flushes,          \* the flushCaptureBuffer invocations that reached provider.add
  delivered,        \* the payloads handed to provider.add: <<[key, sessionId, payload]>>
  \* the service
  heartbeat,        \* the handle `heartbeat` (0 for undefined)
  intervals,        \* the armed setInterval timers
  nextInterval,     \* handles are numbered as they are created
  statusCalls,      \* updateStatusFile() calls waiting for getStats, by caller
  statusFile,       \* mem0-status.json as written last
  atStop,           \* what the last service.stop left behind, until the next start
  \* a call of a function of the plugin that reads no state
  input,            \* its arguments
  output,           \* what it returned
  \* provider initialisation
  cwd,              \* process.cwd()
  cwdSwitchChain,   \* the _init invocations whose gate was chained, in order
  memory,           \* per provider, whether this.memory is set
  initPromise,      \* per provider, the _init invocation of this.initPromise (0 for null)
  inits,            \* the _init invocations, in the order they started
  callers           \* the ensureMemory calls

storeVars == <<hot, nextMem, archive, queue, processing, active, stats, nextTask,
               settled, rejected, prunes>>
recallVars == <<searchCache, searches>>
engineVars == <<pendingActions, actionsFile, reflects, injected, tickFired>>
monitorVars == <<hist, lin>>
reflVars == <<engineVars, monitorVars>>
captureVars == <<captureBuffers, captureTimers, currentSessionId, nextTurn, appended,
                 flushes, delivered>>
serviceVars == <<heartbeat, intervals, nextInterval, statusCalls, statusFile, atStop>>
pureVars == <<input, output>>
initVars == <<cwd, cwdSwitchChain, memory, initPromise, inits, callers>>
hookVars == <<captureVars, serviceVars, pureVars, initVars>>
vars == <<storeVars, recallVars, reflVars, hookVars, now>>

\* memory ids ever created: the store's initial content and one new memory
MaxMem == MaxInitHot + 1
\* largest maxCount a prune is started with (cfg.maxMemoryCount)
MaxCount == MaxInitHot
PruneIds == 1..MaxPrunes
SearchIds == 1..MaxSearches
Keys == 1..NumKeys
\* the tool handlers (memory_store, flushCaptureBuffer, memory_forget) own tasks as 0
ToolOwner == 0

Range(s) == {s[i] : i \in 1..Len(s)}
Max(a, b) == IF a >= b THEN a ELSE b
Min(a, b) == IF a <= b THEN a ELSE b

\* ------------------------------------------------------------- WriteQueue

\* process() without the test of the processing flag
ProcessIgnoresFlag(q, p) == Len(q) = 0

\* process(): `if (this.processing || this.queue.length === 0) return;`
ProcessReturnsEarly(q, p) == p \/ Len(q) = 0

\* process() whose loop is left by a task that throws, processing still set
LoopStopsOnFailure(ok) == ok

\* process() after a task has settled: the `catch {}` keeps the loop going
\* whether the task succeeded or failed.
LoopContinues(ok) == TRUE

\* enqueue(fn): push the wrapped task, update queueMax, call process().  When
\* process() does not return early it sets processing and shifts the head, whose
\* fn runs up to its first await.
Enqueued(q, a, p, st, t) ==
  LET q1 == Append(q, t)
      st1 == [st EXCEPT !.queueMax = Max(st.queueMax, Len(q1))]
  IN IF ProcessReturnsEarly(q1, p)
       THEN [queue |-> q1, active |-> a, processing |-> p, stats |-> st1]
       ELSE [queue |-> Tail(q1), active |-> a \cup {Head(q1)}, processing |-> TRUE,
             stats |-> st1]

\* process() resumed after `await task()` of t: totalWrites++, then the while
\* test: shift the next task or leave the loop and reset processing.
Resumed(q, a, p, st, t, ok) ==
  LET st1 == [st EXCEPT !.totalWrites = st.totalWrites + 1]
  IN IF ~LoopContinues(ok)
       THEN [queue |-> q, active |-> a \ {t}, processing |-> p, stats |-> st1]
     ELSE IF Len(q) > 0
       THEN [queue |-> Tail(q), active |-> (a \ {t}) \cup {Head(q)}, processing |-> p,
             stats |-> st1]
       ELSE [queue |-> q, active |-> a \ {t}, processing |-> FALSE, stats |-> st1]

NewTask(kind, mem, owner) == [id |-> nextTask, kind |-> kind, mem |-> mem, owner |-> owner]

PendingTasks == Range(queue) \cup active

\* ------------------------------------------------------------ search cache

\* clearSearchCache
clearSearchCache(c) == <<>>

CacheIndex(c, key) ==
  IF \E i \in 1..Len(c) : c[i].key = key
    THEN CHOOSE i \in 1..Len(c) : c[i].key = key
    ELSE 0

RemoveAt(s, i) == [j \in 1..(Len(s) - 1) |-> IF j < i THEN s[j] ELSE s[j + 1]]

\* getSearchCache: the entry's results, or "miss"; an expired entry is deleted
CacheHit(c, key, t) == CacheIndex(c, key) # 0 /\ c[CacheIndex(c, key)].expiresAt > t
CacheAfterGet(c, key, t) ==
  IF CacheIndex(c, key) # 0 /\ c[CacheIndex(c, key)].expiresAt <= t
    THEN RemoveAt(c, CacheIndex(c, key))
    ELSE c

\* setSearchCache: Map.set keeps the position of a key that is already present,
\* then the first key in insertion order is evicted when the size exceeds the cap
\* a Map that is never trimmed
NeverEvicted(c) == c

\* `if (searchCache.size > SEARCH_CACHE_MAX_ENTRIES)` delete `keys().next().value`
Evicted(c) == IF Len(c) > SEARCH_CACHE_MAX_ENTRIES THEN Tail(c) ELSE c

setSearchCache(c, key, results, t) ==
  IF results = {} THEN c
  ELSE LET e == [key |-> key, expiresAt |-> t + SEARCH_CACHE_TTL_MS, results |-> results]
           c1 == IF CacheIndex(c, key) # 0
                   THEN [c EXCEPT ![CacheIndex(c, key)] = e]
                   ELSE Append(c, e)
       IN Evicted(c1)

\* provider.search: every memory of the hot store matches the query
SearchResults(h) == h

\* ------------------------------------------------------- capture batching

\* ctx.sessionKey of a hook: 0 when the context has none
Sessions == 0..NumSessions
\* the key "__global__"
GlobalKey == 0
\* getCaptureBufferKey: `sessionId || "__global__"`
getCaptureBufferKey(sessionId) == IF sessionId # 0 THEN sessionId ELSE GlobalKey
BufferKeys == 0..NumSessions

\* strings are sequences of characters; String.prototype.trim()
IsSpace(c) == c \in {" ", "\n"}
RECURSIVE TrimStart(_)
TrimStart(str) ==
  IF str # <<>> /\ IsSpace(Head(str)) THEN TrimStart(Tail(str)) ELSE str
RECURSIVE TrimEnd(_)
TrimEnd(str) ==
  IF str # <<>> /\ IsSpace(str[Len(str)]) THEN TrimEnd(SubSeq(str, 1, Len(str) - 1)) ELSE str
trim(str) == TrimEnd(TrimStart(str))

\* a message's content: a string, a list of blocks, or something else
StringContent(str) == [kind |-> "string", str |-> str, blocks |-> <<>>]
ArrayContent(blocks) == [kind |-> "array", str |-> <<>>, blocks |-> blocks]
TextBlock(str) == [type |-> "text", text |-> str]
ImageBlock == [type |-> "image", text |-> <<>>]

RECURSIVE JoinLines(_)
\* Array.prototype.join("\n")
JoinLines(strs) ==
  IF strs = <<>> THEN <<>>
  ELSE IF Len(strs) = 1 THEN strs[1]
  ELSE strs[1] \o <<"\n">> \o JoinLines(Tail(strs))

\* agent_end's extractText
extractText(content) ==
  IF content.kind = "string" THEN content.str
  ELSE IF content.kind = "array"
    THEN JoinLines([i \in 1..Len(SelectSeq(content.blocks, LAMBDA c : c.type = "text")) |->
                      SelectSeq(content.blocks, LAMBDA c : c.type = "text")[i].text])
  ELSE <<>>

\* slice(0, n)
FirstN(msgs, n) == IF Len(msgs) <= n THEN msgs ELSE SubSeq(msgs, 1, n)
\* slice(-n)
LastN(msgs, n) == IF Len(msgs) <= n THEN msgs ELSE SubSeq(msgs, Len(msgs) - n + 1, Len(msgs))

\* event.messages of an agent_end event
EventMsg(role, content) == [role |-> role, content |-> content]
ShortTurn == <<EventMsg("user", StringContent(<<"a">>))>>
NoisyTurn ==
  << EventMsg("user", StringContent(<<" ", "a">>)),
     EventMsg("user", StringContent(<<"a", " ">>)),
     EventMsg("tool", StringContent(<<"b">>)),
     EventMsg("assistant", ArrayContent(<<TextBlock(<<"a">>), ImageBlock, TextBlock(<<"b">>)>>)),
     EventMsg("assistant", StringContent(<<>>)),
     EventMsg("assistant", StringContent(<<" ", " ">>)),
     EventMsg("user", StringContent(<<"b">>)),
     EventMsg("user", StringContent(<<"b">>)) >>
LongTurn ==
  [i \in 1..(TurnTail + 2) |->
     EventMsg(IF i % 2 = 1 THEN "user" ELSE "assistant", StringContent(<<"a">>))]
TurnEvents == {<<>>, ShortTurn, NoisyTurn, LongTurn}

\* the messages of event `turn` as the hook sees them; obs (the event and the
\* position in it) and from (the session of the hook's context) say where a
\* message was observed
Observed(raw, turn, ctx) ==
  [i \in 1..Len(raw) |-> [role |-> raw[i].role, content |-> raw[i].content,
                          obs |-> <<turn, i>>, from |-> ctx]]

\* agent_end's validMsgs: user and assistant messages with text, the last 10
validMsgs(msgs) ==
  LastN([i \in 1..Len(SelectSeq(msgs, LAMBDA m :
                        m.role \in {"user", "assistant"}
                        /\ Len(trim(extractText(m.content))) > 0)) |->
           [SelectSeq(msgs, LAMBDA m : m.role \in {"user", "assistant"}
                                       /\ Len(trim(extractText(m.content))) > 0)[i]
              EXCEPT !.content = extractText(@)]],
        TurnTail)

\* the Maps, in insertion order
BufferIndex(bufs, key) ==
  IF \E i \in 1..Len(bufs) : bufs[i].key = key
    THEN CHOOSE i \in 1..Len(bufs) : bufs[i].key = key
    ELSE 0
HasTimer(timers, key) == \E i \in 1..Len(timers) : timers[i] = key

\* `current.messages.unshift(...messages)`
Unshifted(current, messages) == messages \o current
\* `current.messages.push(...messages)`
Pushed(current, messages) == current \o messages

\* scheduleCaptureBatch: captureBuffers afterwards
ScheduledBuffers(bufs, sessionId, messages) ==
  LET key == getCaptureBufferKey(sessionId)
      i == BufferIndex(bufs, key)
      current == IF i # 0 THEN bufs[i] ELSE [key |-> key, sessionId |-> sessionId,
                                             messages |-> <<>>]
      updated == [current EXCEPT
                    !.sessionId = IF sessionId # 0 THEN sessionId ELSE @,
                    !.messages = LastN(Pushed(@, messages), captureBatchMaxMessages)]
  IN IF i # 0 THEN [bufs EXCEPT ![i] = updated] ELSE Append(bufs, updated)

\* scheduleCaptureBatch that clears the timer and sets none
TimerDropped(timers, key) == SelectSeq(timers, LAMBDA k : k # key)
\* scheduleCaptureBatch: clearTimeout of the armed timer, setTimeout, Map.set
TimerArmed(timers, key) == IF HasTimer(timers, key) THEN timers ELSE Append(timers, key)

RECURSIVE CompactInto(_, _)
\* flushCaptureBuffer's loop: trim, drop empty texts and adjacent duplicates
CompactInto(compactMessages, messages) ==
  IF messages = <<>> THEN compactMessages
  ELSE LET message == Head(messages)
           text == trim(message.content)
           n == Len(compactMessages)
       IN IF text = <<>> THEN CompactInto(compactMessages, Tail(messages))
          ELSE IF n > 0 /\ compactMessages[n].role = message.role
                        /\ compactMessages[n].content = text
            THEN CompactInto(compactMessages, Tail(messages))
          ELSE CompactInto(Append(compactMessages, [message EXCEPT !.content = text]),
                           Tail(messages))

\* who calls updateStatusFile()
StatusCallers == {"start", "tick", "stop"}
NoStatus == [by |-> "none", currentQueue |-> 0, pending |-> 0]
\* service.stop has not run since the last service.start
NotStopped == [called |-> FALSE, intervals |-> {}, buffers |-> 0, timers |-> 0, inflight |-> {}]

\* ------------------------------------------------------- ReflectionEngine

ReflectIds == 1..MaxReflects
\* delay_minutes in the language model's answer
Delays == {0, 1}
\* what reflect() makes of the answer: no action (an error, no JSON, should_act
\* false, an empty message) or an action with its delay
LLMResults == {[act |-> FALSE, delay |-> 0]} \cup {[act |-> TRUE, delay |-> d] : d \in Delays}

\* the number Infinity, above every time the clock reaches: what JSON.parse
\* makes of `"delay_minutes": 1e400`, and what delayMinutes * 60 * 1000
\* overflows to
Infinity == 2000000000
\* the answer with such a delay
HugeAnswer == [act |-> TRUE, delay |-> Infinity]

\* `now + delayMs` with delayMs = Math.max(0, delay_minutes) * 60 * 1000
TriggerAt(t, delayMinutes) ==
  IF delayMinutes = Infinity THEN Infinity ELSE t + Max(0, delayMinutes) * 60 * 1000

\* the action reflect() builds; the id `action_${now}_${random}` is unique to the
\* invocation r
NewAction(r, t, delayMinutes) ==
  [id |-> MAX_PENDING + r, createdAt |-> t,
   triggerAt |-> TriggerAt(t, delayMinutes),
   fired |-> FALSE, deliveryAttempts |-> 0]

\* mem0-actions.json of an earlier run, read by loadActions: n reminders for
\* the next day, noted one a minute
LoadedActions(n) ==
  [k \in 1..n |-> [id |-> k, createdAt |-> 0 - (n + 1 - k) * HEARTBEAT_MS,
                   triggerAt |-> 0 - (n + 1 - k) * HEARTBEAT_MS + 1440 * 60 * 1000,
                   fired |-> FALSE, deliveryAttempts |-> 0]]

\* pruneActions' filter
pruneActions(acts, t) ==
  SelectSeq(acts, LAMBDA a : ~a.fired /\ (t - a.createdAt < ACTION_TTL_MS))

\* a scan that stops at the last due entry
LastDueIndex(acts, t) ==
  IF \E i \in 1..Len(acts) : ~acts[i].fired /\ acts[i].triggerAt <= t
    THEN CHOOSE i \in 1..Len(acts) :
           /\ ~acts[i].fired /\ acts[i].triggerAt <= t
           /\ \A j \in (i + 1)..Len(acts) : ~(~acts[j].fired /\ acts[j].triggerAt <= t)
    ELSE 0

\* checkPendingActions' scan: the first index with !fired && triggerAt <= now, or 0
DueIndex(acts, t) ==
  IF \E i \in 1..Len(acts) : ~acts[i].fired /\ acts[i].triggerAt <= t
    THEN CHOOSE i \in 1..Len(acts) :
           /\ ~acts[i].fired /\ acts[i].triggerAt <= t
           /\ \A j \in 1..(i - 1) : ~(~acts[j].fired /\ acts[j].triggerAt <= t)
    ELSE 0

\* an action returned without the fired flag being set
LeftUnfired(a) == a

\* `action.fired = true`
Fired(a) == [a EXCEPT !.fired = TRUE]

\* checkPendingActions: the list afterwards and the id returned (0 for null)
checkPendingActions(acts, t) ==
  LET pruned == pruneActions(acts, t)
      i == DueIndex(pruned, t)
  IN IF i = 0
       THEN [actions |-> pruned, id |-> 0, saved |-> Len(pruned) # Len(acts)]
       ELSE [actions |-> [pruned EXCEPT ![i] = Fired(pruned[i])], id |-> pruned[i].id,
             saved |-> TRUE]

\* markActionFailed: the action with this id, if present, is unfired again
markActionFailed(acts, id) ==
  [i \in DOMAIN acts |->
     IF acts[i].id = id
       THEN [acts[i] EXCEPT !.fired = FALSE, !.deliveryAttempts = @ + 1]
       ELSE acts[i]]

HasAction(acts, id) == \E i \in 1..Len(acts) : acts[i].id = id
ActionOf(acts, id) == acts[CHOOSE i \in 1..Len(acts) : acts[i].id = id]

IdleReflect == [pc |-> "idle"]

ReflectInit ==
  /\ \E n \in {0, MAX_PENDING - 1} : pendingActions = LoadedActions(n)
  /\ actionsFile = pendingActions
  /\ reflects = [r \in ReflectIds |-> IdleReflect]
  /\ injected = <<>>
  /\ tickFired = {}
  /\ hist = <<>>
  /\ lin = {[acts |-> pendingActions, done |-> {}]}

\* ------------------------------------------------------------------- Init

IdlePrune == [pc |-> "idle", maxCount |-> 0, memories |-> <<>>, toDelete |-> <<>>,
              idx |-> 0, deleted |-> 0, archived |-> "no", hotAtReturn |-> {}]
IdleSearch == [pc |-> "idle", key |-> 0, results |-> {}, fromCache |-> FALSE]

StoreInit ==
  /\ \E n \in 0..MaxInitHot : hot = 1..n /\ nextMem = n + 1
  /\ archive = <<>>
  /\ queue = <<>>
  /\ processing = FALSE
  /\ active = {}
  /\ stats = [totalWrites |-> 0, queueMax |-> 0]
  /\ nextTask = 1
  /\ settled = {}
  /\ rejected = {}
  /\ prunes = [p \in PruneIds |-> IdlePrune]

RecallInit ==
  /\ searchCache = <<>>
  /\ searches = [s \in SearchIds |-> IdleSearch]

\* registration: empty Maps, no session seen, no timer
CaptureInit ==
  /\ captureBuffers = <<>>
  /\ captureTimers = <<>>
  /\ currentSessionId = 0
  /\ nextTurn = 1
  /\ appended = [k \in BufferKeys |-> <<>>]
  /\ flushes = <<>>
  /\ delivered = <<>>

ServiceInit ==
  /\ heartbeat = 0
  /\ intervals = {}
  /\ nextInterval = 1
  /\ statusCalls = [c \in StatusCallers |-> 0]
  /\ statusFile = NoStatus
  /\ atStop = NotStopped

\* no call yet: one call is followed, and a second one would read nothing of it
NoCall == [fn |-> "none"]
PureInit == input = NoCall /\ output = NoCall

\* the directory the process was started in, and a provider's data directory
HomeDir == "home"
baseDir(p) == <<"data", p>>
ProviderIds == 1..NumProviders
CallerIds == 1..MaxCallers
IdleCaller == [pc |-> "idle", provider |-> 0, init |-> 0, joined |-> "none"]

\* construction of the providers: no memory, initPromise null, the chain resolved
ProviderInit ==
  /\ cwd = HomeDir
  /\ cwdSwitchChain = <<>>
  /\ memory = [p \in ProviderIds |-> FALSE]
  /\ initPromise = [p \in ProviderIds |-> 0]
  /\ inits = <<>>
  /\ callers = [c \in CallerIds |-> IdleCaller]

Init ==
  StoreInit /\ RecallInit /\ ReflectInit /\ CaptureInit /\ ServiceInit /\ PureInit
    /\ ProviderInit /\ now = 0

\* ------------------------------------------------- OSSProvider.add / delete

SetQueue(r) ==
  /\ queue' = r.queue
  /\ active' = r.active
  /\ processing' = r.processing
  /\ stats' = r.stats

\* memory_store.execute and flushCaptureBuffer: `await provider.add(...)`, which
\* enqueues `memory.add` on the shared writeQueue
CallAdd ==
  /\ nextTask <= MaxCalls
  /\ SetQueue(Enqueued(queue, active, processing, stats, NewTask("add", 0, ToolOwner)))
  /\ nextTask' = nextTask + 1
  /\ UNCHANGED <<hot, nextMem, archive, settled, rejected, prunes, searchCache, searches, now>>

\* a delete that calls memory.delete at once instead of enqueueing it
ForgetByIdUnqueued(m) ==
  /\ nextTask <= MaxCalls
  /\ hot' = hot \ {m}
  /\ searchCache' = clearSearchCache(searchCache)
  /\ nextTask' = nextTask + 1
  /\ UNCHANGED <<nextMem, archive, queue, processing, active, stats, settled, rejected,
                 prunes, searches, now>>

\* memory_forget.execute with a memoryId: `await provider.delete(id)`, which
\* enqueues `memory.delete` on the shared writeQueue
ForgetById(m) ==
  /\ nextTask <= MaxCalls
  /\ SetQueue(Enqueued(queue, active, processing, stats, NewTask("delete", m, ToolOwner)))
  /\ nextTask' = nextTask + 1
  /\ UNCHANGED <<hot, nextMem, archive, settled, rejected, prunes, searchCache, searches, now>>

\* ------------------------------------------------------- OSSProvider.prune

RECURSIVE SortedSeq(_)
\* memories.sort by created_at ascending (created_at grows with the id)
SortedSeq(S) ==
  IF S = {} THEN <<>>
  ELSE LET m == CHOOSE x \in S : \A y \in S : x <= y
       IN <<m>> \o SortedSeq(S \ {m})

\* archiveMemories: one appendFileSync of all lines; an error is logged and swallowed
archiveMemories(arch, memories, ok) == IF ok THEN arch \o memories ELSE arch

\* service.start: provider.prune(cfg.userId, cfg.maxMemoryCount || 2000);
\* prune awaits ensureMemory and calls getAll
PruneStart(p, K) ==
  /\ prunes[p].pc = "idle"
  /\ prunes' = [prunes EXCEPT ![p] = [@ EXCEPT !.pc = "getAll", !.maxCount = K]]
  /\ UNCHANGED <<hot, nextMem, archive, queue, processing, active, stats, nextTask,
                 settled, rejected, searchCache, searches, now>>

\* memory.getAll reads the store
PruneGetAll(p) ==
  /\ prunes[p].pc = "getAll"
  /\ prunes' = [prunes EXCEPT ![p] = [@ EXCEPT !.pc = "listed", !.memories = SortedSeq(hot)]]
  /\ UNCHANGED <<hot, nextMem, archive, queue, processing, active, stats, nextTask,
                 settled, rejected, searchCache, searches, now>>

\* prune resumed after getAll: the length test, sort, slice, archiveMemories and
\* the first `await this.delete(mem.id)`, which enqueues the delete (the list
\* `memories` is not read again and is dropped from the state)
PruneArchive(p, ok) ==
  /\ prunes[p].pc = "listed"
  /\ LET mems == prunes[p].memories
         K == prunes[p].maxCount
     IN IF Len(mems) <= K
          THEN /\ prunes' = [prunes EXCEPT ![p] = [@ EXCEPT !.pc = "done", !.memories = <<>>,
                                                            !.hotAtReturn = hot]]
               /\ UNCHANGED <<archive, queue, processing, active, stats, nextTask>>
          ELSE LET toDelete == SubSeq(mems, 1, Len(mems) - K)
               IN /\ archive' = archiveMemories(archive, toDelete, ok)
                  /\ prunes' = [prunes EXCEPT ![p] =
                       [@ EXCEPT !.pc = "deleting", !.memories = <<>>,
                                 !.toDelete = toDelete, !.idx = 1,
                                 !.archived = IF ok THEN "ok" ELSE "failed"]]
                  /\ SetQueue(Enqueued(queue, active, processing, stats,
                                       NewTask("delete", toDelete[1], p)))
                  /\ nextTask' = nextTask + 1
  /\ UNCHANGED <<hot, nextMem, settled, rejected, searchCache, searches, now>>

\* a prune that counts every delete it tried
CountedAll(deleted, ok) == deleted + 1
\* prune's `try { await this.delete(mem.id); deleted++; } catch { /* ignore */ }`
Counted(deleted, ok) == IF ok THEN deleted + 1 ELSE deleted

\* ------------------------------------------------------- a task settles

\* The awaited memory.add / memory.delete of the running task t settles: the
\* wrapper resolves or rejects the caller's future, process() resumes, and the
\* caller's continuation runs (all microtasks of the same block).
\*   memory_store / flushCaptureBuffer: `if (res.results.length > 0) clearSearchCache()`
\*   memory_forget: `clearSearchCache()` after a delete that did not throw
\*   prune: `deleted++` unless the delete threw, then the next delete or the
\*          return, and service.start's `if (deleted > 0) clearSearchCache()`
TaskSettles(t, ok, extracted) ==
  /\ t \in active
  /\ settled' = settled \cup {t.id}
  /\ rejected' = IF ok THEN rejected ELSE rejected \cup {t.id}
  /\ LET r == Resumed(queue, active, processing, stats, t, ok) IN
     IF t.owner = ToolOwner
       THEN /\ SetQueue(r)
            /\ UNCHANGED <<prunes, nextTask, archive>>
            /\ IF t.kind = "add"
                 THEN IF ok /\ extracted /\ nextMem <= MaxMem
                        THEN /\ hot' = hot \cup {nextMem}
                             /\ nextMem' = nextMem + 1
                             /\ searchCache' = clearSearchCache(searchCache)
                        ELSE UNCHANGED <<hot, nextMem, searchCache>>
                 ELSE /\ hot' = IF ok THEN hot \ {t.mem} ELSE hot
                      /\ nextMem' = nextMem
                      /\ searchCache' = IF ok THEN clearSearchCache(searchCache)
                                              ELSE searchCache
       ELSE LET p == t.owner
                pr == prunes[p]
                deleted == Counted(pr.deleted, ok)
            IN /\ hot' = IF ok THEN hot \ {t.mem} ELSE hot
               /\ nextMem' = nextMem
               /\ archive' = archive
               /\ IF pr.idx < Len(pr.toDelete)
                    THEN /\ prunes' = [prunes EXCEPT ![p] =
                              [@ EXCEPT !.idx = pr.idx + 1, !.deleted = deleted]]
                         /\ SetQueue(Enqueued(r.queue, r.active, r.processing, r.stats,
                                              NewTask("delete", pr.toDelete[pr.idx + 1], p)))
                         /\ nextTask' = nextTask + 1
                         /\ searchCache' = searchCache
                    ELSE /\ prunes' = [prunes EXCEPT ![p] =
                              [@ EXCEPT !.pc = "done", !.deleted = deleted,
                                        !.hotAtReturn = hot']]
                         /\ SetQueue(r)
                         /\ nextTask' = nextTask
                         /\ searchCache' = IF deleted > 0
                                             THEN clearSearchCache(searchCache)
                                             ELSE searchCache
  /\ UNCHANGED <<searches, now>>

\* ---------------------------------------------------------- memory_search

\* memory_search.execute up to the await: the cache lookup; a hit returns the
\* cached results at once
SearchStart(s, key) ==
  /\ searches[s].pc = "idle"
  /\ searchCache' = CacheAfterGet(searchCache, key, now)
  /\ IF CacheHit(searchCache, key, now)
       THEN searches' = [searches EXCEPT ![s] =
              [pc |-> "done", key |-> key, fromCache |-> TRUE,
               results |-> searchCache[CacheIndex(searchCache, key)].results]]
       ELSE searches' = [searches EXCEPT ![s] = [@ EXCEPT !.pc = "searching", !.key = key]]
  /\ UNCHANGED <<storeVars, now>>

\* provider.search reads the hot store
SearchRead(s) ==
  /\ searches[s].pc = "searching"
  /\ searches' = [searches EXCEPT ![s] = [@ EXCEPT !.pc = "read",
                                                  !.results = SearchResults(hot)]]
  /\ UNCHANGED <<storeVars, searchCache, now>>

\* memory_search.execute resumed: merge, and `setSearchCache(cacheKey, results)`
\* unless nothing was found; the results are returned
SearchFinish(s) ==
  /\ searches[s].pc = "read"
  /\ searchCache' = setSearchCache(searchCache, searches[s].key, searches[s].results, now)
  /\ searches' = [searches EXCEPT ![s] = [@ EXCEPT !.pc = "done"]]
  /\ UNCHANGED <<storeVars, now>>

\* --------------------------------------------------------------- the clock

TimePasses(d) ==
  /\ (now % ACTION_TTL_MS) + (d % ACTION_TTL_MS) <= MaxTicks * HEARTBEAT_MS
  /\ now + d <= ACTION_TTL_MS + MaxTicks * HEARTBEAT_MS
  /\ now' = now + d
  /\ UNCHANGED <<storeVars, recallVars>>

\* ---------------------------------------------- the engine with atomic calls

\* Reflection as the spec describes it: observe, poll and mark_failed each take
\* effect at one instant.  A configuration is the action list of such an engine
\* with, in `done`, the observe calls in flight that have taken effect already.
Refused == [act |-> FALSE, delay |-> 0 - 1]

\* observe at time t with the model's answer out: prune, refuse at the limit,
\* else append the action the answer asks for
AtomicObserve(c, r, out, t) ==
  LET a1 == pruneActions(c.acts, t)
  IN IF Len(a1) >= MAX_PENDING
       THEN [acts |-> a1, done |-> c.done \cup {[r |-> r, out |-> Refused]}]
     ELSE IF out.act
       THEN [acts |-> Append(a1, NewAction(r, t, out.delay)),
             done |-> c.done \cup {[r |-> r, out |-> out]}]
       ELSE [acts |-> a1, done |-> c.done \cup {[r |-> r, out |-> out]}]

IsDone(c, r) == \E e \in c.done : e.r = r

\* some observe call in flight takes effect
LinStep(L, F, t) ==
  L \cup UNION {{AtomicObserve(c, r, out, t) : out \in LLMResults} :
                 <<c, r>> \in {y \in L \X F : ~IsDone(y[1], y[2])}}

RECURSIVE Closed(_, _, _, _)
\* every way the observe calls in flight F can have taken effect by now
Closed(L, F, t, n) ==
  IF n = 0 THEN L ELSE Closed(LinStep(L, F, t), F, t, n - 1)

InFlight == {r \in ReflectIds : reflects[r].pc = "awaiting"}

\* poll returned id x at time t
LinAfterPoll(L, x, t) ==
  {[c EXCEPT !.acts = checkPendingActions(c.acts, t).actions] :
     c \in {y \in L : checkPendingActions(y.acts, t).id = x}}

\* mark_failed(id)
LinAfterFailed(L, id) ==
  {[c EXCEPT !.acts = markActionFailed(c.acts, id)] : c \in L}

\* observe r returned, the model having answered out
LinAfterObserve(L, r, out) ==
  {[c EXCEPT !.done = {e \in c.done : e.r # r}] :
     c \in {y \in L : \E e \in y.done : e.r = r /\ (e.out = out \/ e.out = Refused)}}

\* the last three calls
Logged(h, e) == IF Len(h) < 3 THEN Append(h, e) ELSE Append(Tail(h), e)

\* the calls as the monitor sees them

\* observe r is called; at the limit reflect() returns at once
ObserveCalled(r) ==
  /\ hist' = Logged(hist, [op |-> "observe", id |-> 0])
  /\ lin' = IF Len(pruneActions(pendingActions, now)) >= MAX_PENDING
              THEN Closed(LinAfterObserve(Closed(lin, InFlight \cup {r}, now, MaxReflects),
                                          r, Refused),
                          InFlight, now, MaxReflects)
              ELSE Closed(lin, InFlight \cup {r}, now, MaxReflects)

ObserveReturned(r, out) ==
  /\ lin' = Closed(LinAfterObserve(lin, r, out), InFlight \ {r}, now, MaxReflects)
  /\ UNCHANGED hist

PollReturned ==
  LET id == checkPendingActions(pendingActions, now).id IN
  /\ hist' = Logged(hist, [op |-> "poll", id |-> id])
  /\ lin' = Closed(LinAfterPoll(lin, id, now), InFlight, now, MaxReflects)

FailedCalled(id) ==
  /\ hist' = Logged(hist, [op |-> "failed", id |-> id])
  /\ lin' = Closed(LinAfterFailed(lin, id), InFlight, now, MaxReflects)

TimeSeen(d) ==
  /\ hist' = Logged(hist, [op |-> "time", id |-> 0])
  /\ lin' = Closed(lin, InFlight, now + d, MaxReflects)

\* ------------------------------------------------ ReflectionEngine's calls

\* reflect() up to `await llm.generate`: pruneActions, then the MAX_PENDING test
ReflectStart(r) ==
  /\ reflects[r].pc = "idle"
  /\ LET pruned == pruneActions(pendingActions, now) IN
     /\ pendingActions' = pruned
     /\ actionsFile' = IF Len(pruned) # Len(pendingActions) THEN pruned ELSE actionsFile
     /\ reflects' = [reflects EXCEPT ![r] =
                       [pc |-> IF Len(pruned) >= MAX_PENDING THEN "done" ELSE "awaiting"]]
  /\ UNCHANGED <<injected, tickFired, now>>

\* reflect() resumed with the model's answer: the action is pushed and saved
ReflectFinish(r, out) ==
  /\ reflects[r].pc = "awaiting"
  /\ reflects' = [reflects EXCEPT ![r] = [pc |-> "done"]]
  /\ IF out.act
       THEN /\ pendingActions' = Append(pendingActions, NewAction(r, now, out.delay))
            /\ actionsFile' = pendingActions'
       ELSE UNCHANGED <<pendingActions, actionsFile>>
  /\ UNCHANGED <<injected, tickFired, now>>

Polled(res) ==
  /\ pendingActions' = res.actions
  /\ actionsFile' = IF res.saved THEN res.actions ELSE actionsFile

\* the heartbeat: `reflectionEngine.checkPendingActions()`, the result dropped
HeartbeatPoll ==
  /\ LET res == checkPendingActions(pendingActions, now) IN
     /\ Polled(res)
     /\ tickFired' = IF res.id # 0 THEN tickFired \cup {res.id} ELSE tickFired
  /\ UNCHANGED <<reflects, injected, now>>

\* a system context is the list of its parts: 0 for the block of recalled
\* memories, an action's id for the proactive-insight block with its message
\* a handler that returns the memory block alone
InsightDropped(context, id) == context
\* `if (action) context += ...action.message...`
InsightAppended(context, id) == IF id # 0 THEN Append(context, id) ELSE context
\* the context before_agent_start builds: injection.context, empty when no
\* memory was recalled, and the insight; an empty context is not returned
systemContext(recalled, id) ==
  InsightAppended(IF recalled THEN <<0>> ELSE <<>>, id)

\* the context holds the insight of action id
Injects(context, id) == \E i \in 1..Len(context) : context[i] = id

\* before_agent_start after its search: the poll, and the system context
\* returned to the host; the action counts as injected when the context holds
\* its insight whether or not memories were recalled
BeforeTurnPoll ==
  /\ LET res == checkPendingActions(pendingActions, now) IN
     /\ Polled(res)
     /\ injected' = IF res.id # 0
                        /\ \A recalled \in BOOLEAN : Injects(systemContext(recalled, res.id), res.id)
                      THEN Append(injected, res.id) ELSE injected
     /\ tickFired' = tickFired \ {res.id}
  /\ UNCHANGED <<reflects, now>>

\* an action whose delivery failed: one that a poll returned and that reached
\* nobody
DeliveryFailed(id) == id \in tickFired

\* markActionFailed(id), called for an action whose delivery failed
MarkActionFailed(id) ==
  /\ DeliveryFailed(id)
  /\ HasAction(pendingActions, id) => ActionOf(pendingActions, id).deliveryAttempts < MaxAttempts
  /\ pendingActions' = markActionFailed(pendingActions, id)
  /\ actionsFile' = IF HasAction(pendingActions, id) THEN pendingActions' ELSE actionsFile
  /\ tickFired' = tickFired \ {id}
  /\ UNCHANGED <<reflects, injected, now>>

\* time passes between the engine's calls
ReflectTimePasses(d) ==
  /\ TimePasses(d)
  /\ UNCHANGED <<pendingActions, actionsFile, reflects, injected, tickFired>>

\* ------------------------------------------------------------------- Next

StoreNext ==
  \/ CallAdd
  \/ \E m \in 1..(nextMem - 1) : ForgetById(m)
  \/ \E p \in PruneIds, K \in 1..MaxCount : PruneStart(p, K)
  \/ \E p \in PruneIds : PruneGetAll(p)
  \/ \E p \in PruneIds, ok \in BOOLEAN : PruneArchive(p, ok)
  \/ \E t \in active, ok \in BOOLEAN, extracted \in BOOLEAN : TaskSettles(t, ok, extracted)

\* ------------------------------------------------------- capture batching

\* what flushCaptureBuffer reads and writes
CaptureState ==
  [buffers |-> captureBuffers, timers |-> captureTimers, appended |-> appended,
   flushes |-> flushes, delivered |-> delivered, queue |-> queue, active |-> active,
   processing |-> processing, stats |-> stats, nextTask |-> nextTask]

SetCapture(st) ==
  /\ captureBuffers' = st.buffers
  /\ captureTimers' = st.timers
  /\ appended' = st.appended
  /\ flushes' = st.flushes
  /\ delivered' = st.delivered
  /\ SetQueue(st)
  /\ nextTask' = st.nextTask

\* a flush that leaves its timer in captureTimers
StillArmed(timers, key) == timers
\* `clearTimeout(timer); captureTimers.delete(bufferKey)`
Disarmed(timers, key) == SelectSeq(timers, LAMBDA k : k # key)

\* a flush that leaves its batch in captureBuffers
Attached(bufs, i) == bufs
\* `captureBuffers.delete(bufferKey)`
Detached(bufs, i) == RemoveAt(bufs, i)

\* flushCaptureBuffer(key) up to its `await provider.add(...)`: the timer is
\* cleared and forgotten, the buffer deleted, the batch compacted and cut, and
\* provider.add (memory initialised) enqueues the write under batch.sessionId
flushCaptureBuffer(st, key) ==
  LET i == BufferIndex(st.buffers, key)
      st1 == [st EXCEPT !.timers = Disarmed(@, key)]
  IN IF i = 0 \/ st.buffers[i].messages = <<>> THEN st1
     ELSE LET batch == st.buffers[i]
              st2 == [st1 EXCEPT !.buffers = Detached(@, i), !.appended[key] = <<>>]
              payload == LastN(CompactInto(<<>>, batch.messages), captureBatchMaxMessages)
              f == Len(st.flushes) + 1
              t == [id |-> st.nextTask, kind |-> "add", mem |-> 0, owner |-> -f]
              q == Enqueued(st.queue, st.active, st.processing, st.stats, t)
          IN IF payload = <<>> THEN st2
             ELSE [st2 EXCEPT
                     !.flushes = Append(@, [key |-> key, pc |-> "adding", task |-> t.id,
                                            at |-> nextTurn]),
                     !.delivered = Append(@, [key |-> key, sessionId |-> batch.sessionId,
                                              payload |-> payload]),
                     !.queue = q.queue, !.active = q.active,
                     !.processing = q.processing, !.stats = q.stats,
                     !.nextTask = t.id + 1]

RECURSIVE FlushEach(_, _)
\* `for (const key of keys) void flushCaptureBuffer(key)`
FlushEach(st, keys) ==
  IF keys = <<>> THEN st ELSE FlushEach(flushCaptureBuffer(st, Head(keys)), Tail(keys))

\* before_agent_start up to its search: the turn's session becomes the current one
BeforeAgentStart(ctx) ==
  /\ ctx # 0
  /\ currentSessionId' = ctx
  /\ UNCHANGED <<captureBuffers, captureTimers, nextTurn, appended, flushes, delivered>>

\* agent_end: a failed or empty turn is dropped; the texts are extracted and
\* filtered, the last ten kept and scheduled under the current session
AgentEnd(success, ctx, raw) ==
  /\ nextTurn' = nextTurn + 1
  /\ UNCHANGED <<flushes, delivered>>
  /\ IF ~success \/ raw = <<>>
       THEN UNCHANGED <<captureBuffers, captureTimers, currentSessionId, appended>>
       ELSE LET sessionId == IF ctx # 0 THEN ctx ELSE currentSessionId
                msgs == validMsgs(Observed(raw, nextTurn, ctx))
                key == getCaptureBufferKey(sessionId)
            IN /\ currentSessionId' = sessionId
               /\ IF msgs = <<>>
                    THEN UNCHANGED <<captureBuffers, captureTimers, appended>>
                    ELSE /\ captureBuffers' = ScheduledBuffers(captureBuffers, sessionId, msgs)
                         /\ captureTimers' = TimerArmed(captureTimers, key)
                         /\ appended' = [appended EXCEPT ![key] = @ \o msgs]

\* a flush timer fires: `void flushCaptureBuffer(bufferKey)`
TimerFires(key) ==
  /\ HasTimer(captureTimers, key)
  /\ SetCapture(flushCaptureBuffer(CaptureState, key))
  /\ UNCHANGED <<currentSessionId, nextTurn>>

FlushTask(f) == CHOOSE t \in active : t.id = flushes[f].task

\* the provider.add of flush f settles: process() resumes; with results the
\* search cache is cleared and the flush goes on to its search, otherwise (or
\* when add threw, which is caught and logged) the flush is over
FlushAddSettles(f, ok, extracted) ==
  /\ f \in DOMAIN flushes
  /\ flushes[f].pc = "adding"
  /\ \E t \in active : t.id = flushes[f].task
  /\ LET t == FlushTask(f)
         results == ok /\ extracted /\ nextMem <= MaxMem
     IN /\ settled' = settled \cup {t.id}
        /\ rejected' = IF ok THEN rejected ELSE rejected \cup {t.id}
        /\ SetQueue(Resumed(queue, active, processing, stats, t, ok))
        /\ hot' = IF results THEN hot \cup {nextMem} ELSE hot
        /\ nextMem' = IF results THEN nextMem + 1 ELSE nextMem
        /\ searchCache' = IF results THEN clearSearchCache(searchCache) ELSE searchCache
        /\ flushes' = [flushes EXCEPT ![f].pc = IF results THEN "searching"
                                                ELSE IF ok THEN "done" ELSE "failed"]
  /\ UNCHANGED <<archive, prunes, nextTask, searches, now, captureBuffers, captureTimers,
                 currentSessionId, nextTurn, appended, delivered>>

\* the flush's provider.search returns and reflect(payload, memories) is
\* called without being awaited
FlushSearched(f, r) ==
  /\ f \in DOMAIN flushes
  /\ flushes[f].pc = "searching"
  /\ flushes' = [flushes EXCEPT ![f].pc = "done"]
  /\ ReflectStart(r)
  /\ UNCHANGED <<captureBuffers, captureTimers, currentSessionId, nextTurn, appended,
                 delivered>>

\* ------------------------------------------------------------ the service

\* updateStatusFile() is called: it waits for provider.getStats()
StatusCalled(caller) == statusCalls' = [statusCalls EXCEPT ![caller] = @ + 1]

\* updateStatusFile resumed with the stats, writeQueueStats read at that
\* moment: the file is written (a getStats or write error is swallowed)
StatusWrite(caller, ok) ==
  /\ statusCalls[caller] > 0
  /\ statusCalls' = [statusCalls EXCEPT ![caller] = @ - 1]
  /\ statusFile' = IF ok THEN [by |-> caller, currentQueue |-> Len(queue),
                               pending |-> Cardinality(PendingTasks)]
                         ELSE statusFile
  /\ UNCHANGED <<heartbeat, intervals, nextInterval, atStop>>

\* fs.writeFileSync as another process sees it: the file is opened and
\* truncated, and holds a part of the text until the last byte is written.
\* The snapshot being written is that of `writer`.
Partial(caller) ==
  [by |-> "partial", currentQueue |-> Len(queue), pending |-> Cardinality(PendingTasks),
   writer |-> caller]
Writing == statusFile.by = "partial"

\* updateStatusFile resumed with the stats: writeFileSync opens the file (a
\* getStats error is swallowed and nothing is written)
StatusOpen(caller, ok) ==
  /\ ~Writing
  /\ statusCalls[caller] > 0
  /\ statusCalls' = [statusCalls EXCEPT ![caller] = @ - 1]
  /\ statusFile' = IF ok THEN Partial(caller) ELSE statusFile
  /\ UNCHANGED <<heartbeat, intervals, nextInterval, atStop>>

\* writeFileSync returns: the whole snapshot is in the file
StatusClose ==
  /\ Writing
  /\ statusFile' = [by |-> statusFile.writer, currentQueue |-> statusFile.currentQueue,
                    pending |-> statusFile.pending]
  /\ UNCHANGED <<heartbeat, intervals, nextInterval, statusCalls, atStop>>

\* service.start: provider.prune is called (in call slot p, free again once an
\* earlier call has returned), updateStatusFile is called, and setInterval's
\* handle is assigned to `heartbeat`
Start(p) ==
  /\ nextInterval <= MaxStarts
  /\ prunes[p].pc \in {"idle", "done"}
  /\ prunes' = [prunes EXCEPT ![p] = [IdlePrune EXCEPT !.pc = "getAll", !.maxCount = MaxCount]]
  /\ StatusCalled("start")
  /\ intervals' = intervals \cup {nextInterval}
  /\ heartbeat' = nextInterval
  /\ nextInterval' = nextInterval + 1
  /\ atStop' = NotStopped
  /\ UNCHANGED <<hot, nextMem, archive, queue, processing, active, stats, nextTask,
                 settled, rejected, statusFile>>

\* service.stop: clearInterval(heartbeat), flushCaptureBuffer for every key of
\* captureTimers and then of captureBuffers, none awaited, and updateStatusFile
\* is called; stop returns
Stop ==
  /\ statusCalls["stop"] < MaxStarts
  /\ StatusCalled("stop")
  /\ intervals' = intervals \ {heartbeat}
  /\ LET st1 == FlushEach(CaptureState, captureTimers)
         st2 == FlushEach(st1, [i \in DOMAIN st1.buffers |-> st1.buffers[i].key])
     IN /\ SetCapture(st2)
        /\ atStop' = [called |-> TRUE, intervals |-> intervals',
                      buffers |-> Len(st2.buffers), timers |-> Len(st2.timers),
                      inflight |-> {f \in DOMAIN st2.flushes : st2.flushes[f].pc = "adding"}]
  /\ UNCHANGED <<heartbeat, nextInterval, statusFile, currentSessionId, nextTurn>>

\* an armed interval fires: the poll, its result dropped, and updateStatusFile
Tick(i) ==
  /\ i \in intervals
  /\ statusCalls["tick"] < MaxTicks
  /\ HeartbeatPoll
  /\ StatusCalled("tick")
  /\ UNCHANGED <<heartbeat, intervals, nextInterval, statusFile, atStop>>

\* ------------------------------------------- memory_search: the three sources

RECURSIVE SeqsUpTo(_, _)
\* the sequences over S of length n or less
SeqsUpTo(S, n) ==
  IF n = 0 THEN {<<>>}
  ELSE SeqsUpTo(S, n - 1) \cup {Append(q, x) : q \in SeqsUpTo(S, n - 1), x \in S}

\* what a sub-search promise settles with: a list of memory ids, or a rejection
Rejected == [ok |-> FALSE, ids |-> <<>>]
SubSearchOutcomes ==
  {Rejected} \cup {[ok |-> TRUE, ids |-> q] : q \in SeqsUpTo(1..MaxHitId, MaxHits)}
Scopes == {"session", "long-term", "all"}
\* scope, deep, whether currentSessionId is set, and the three outcomes
SearchInputs ==
  [fn : {"memory_search"}, scope : Scopes, deep : BOOLEAN, session : BOOLEAN,
   longTerm : SubSearchOutcomes, sessionHits : SubSearchOutcomes, archived : SubSearchOutcomes]

\* the items of a source, each remembering the source it came from
FromSource(ids, source) == [i \in 1..Len(ids) |-> [id |-> ids[i], source |-> source]]

RECURSIVE pushUnique(_, _)
\* pushUnique in turn over the items: an id already pushed is skipped
pushUnique(results, items) ==
  IF items = <<>> THEN results
  ELSE IF \E i \in 1..Len(results) : results[i].id = Head(items).id
    THEN pushUnique(results, Tail(items))
    ELSE pushUnique(Append(results, Head(items)), Tail(items))

\* a merge that takes the session's results first
SessionFirst(scope, longTerm, session, archived) ==
  IF scope = "session" THEN session
  ELSE IF scope = "long-term" THEN longTerm \o archived
  ELSE session \o longTerm \o archived
\* the order of the pushUnique calls for the scope
SourceOrder(scope, longTerm, session, archived) ==
  IF scope = "session" THEN session
  ELSE IF scope = "long-term" THEN longTerm \o archived
  ELSE longTerm \o session \o archived

\* memory_search.execute after a cache miss: Promise.all over the sub-searches
\* that are needed (the others resolve with []), a rejection of any of them is
\* caught and returned as an error text; otherwise the merge
memory_search(in) ==
  LET needLongTerm == in.scope \in {"long-term", "all"}
      needSession == in.scope \in {"session", "all"} /\ in.session
      needArchive == in.deep /\ needLongTerm
      lt == IF needLongTerm THEN in.longTerm ELSE [ok |-> TRUE, ids |-> <<>>]
      se == IF needSession THEN in.sessionHits ELSE [ok |-> TRUE, ids |-> <<>>]
      ar == IF needArchive THEN in.archived ELSE [ok |-> TRUE, ids |-> <<>>]
  IN IF ~lt.ok \/ ~se.ok \/ ~ar.ok
       THEN [fn |-> "memory_search", error |-> TRUE, results |-> <<>>]
       ELSE [fn |-> "memory_search", error |-> FALSE,
             results |-> pushUnique(<<>>, SourceOrder(in.scope,
                           FromSource(lt.ids, "long-term"), FromSource(se.ids, "session"),
                           FromSource(ar.ids, "archive")))]

MemorySearch(in) ==
  /\ input = NoCall
  /\ input' = in
  /\ output' = memory_search(in)
  /\ UNCHANGED <<storeVars, recallVars, reflVars, captureVars, serviceVars, initVars, now>>

\* ------------------------------------------------------ makeSearchCacheKey

\* Strings are sequences of characters.  The characters drawn are the
\* separator of the key, a digit, an upper-case letter and a blank.
QueryChars == {"|", "1", "A", " "}
IdChars == {"|", "1"}
NoSession == <<>>
SessionIds == {NoSession, <<"-">>, <<"1">>}

\* the characters of a string
Chars(str) == [i \in 1..Len(str) |-> SubSeq(str, i, i)]

\* String.prototype.toLowerCase
UpperCase == Chars("ABCDEFGHIJKLMNOPQRSTUVWXYZ")
LowerCase == Chars("abcdefghijklmnopqrstuvwxyz")
LowerChar(c) ==
  IF \E i \in 1..Len(UpperCase) : UpperCase[i] = c
    THEN LowerCase[CHOOSE i \in 1..Len(UpperCase) : UpperCase[i] = c]
    ELSE c
toLowerCase(str) == [i \in 1..Len(str) |-> LowerChar(str[i])]

\* `${limit}` of a whole number: its decimal digits
DigitChar(d) == <<"0", "1", "2", "3", "4", "5", "6", "7", "8", "9">>[d + 1]
RECURSIVE NumberToString(_)
NumberToString(n) ==
  IF n < 10 THEN <<DigitChar(n)>> ELSE Append(NumberToString(n \div 10), DigitChar(n % 10))

\* the tool's scope literals
ScopeText(scope) ==
  CASE scope = "session" -> <<"s", "e", "s", "s", "i", "o", "n">>
    [] scope = "long-term" -> <<"l", "o", "n", "g", "-", "t", "e", "r", "m">>
    [] scope = "all" -> <<"a", "l", "l">>

\* makeSearchCacheKey: the template literal joins the six fields with "|"
makeSearchCacheKey(query, limit, userId, scope, deep, sessionId) ==
  toLowerCase(trim(query)) \o <<"|">> \o NumberToString(limit) \o <<"|">> \o userId
    \o <<"|">> \o ScopeText(scope) \o <<"|">> \o (IF deep THEN <<"1">> ELSE <<"0">>)
    \o <<"|">> \o (IF sessionId # NoSession THEN sessionId ELSE <<"-">>)

\* the arguments memory_search.execute passes: effectiveLimit, effectiveUserId
\* (never empty), the scope, Boolean(deep) and currentSessionId
KeyInputs ==
  [fn : {"makeSearchCacheKey"}, query : SeqsUpTo(QueryChars, MaxQueryLen),
   limit : 1..MaxLimit, userId : SeqsUpTo(IdChars, MaxIdLen) \ {<<>>},
   scope : Scopes, deep : BOOLEAN, sessionId : SessionIds]

KeyOf(in) == makeSearchCacheKey(in.query, in.limit, in.userId, in.scope, in.deep, in.sessionId)

MakeSearchCacheKey(in) ==
  /\ input = NoCall
  /\ input' = in
  /\ output' = [fn |-> "makeSearchCacheKey", key |-> KeyOf(in)]
  /\ UNCHANGED <<storeVars, recallVars, reflVars, captureVars, serviceVars, initVars, now>>

\* ------------------------------------------------------ buildMemoryContext

\* MODEL_CONTEXT_LIMITS in the order of Object.entries
MODEL_CONTEXT_LIMITS ==
  << [key |-> "gpt-4", limit |-> 8192],
     [key |-> "gpt-4-32k", limit |-> 32768],
     [key |-> "gpt-4-turbo", limit |-> 128000],
     [key |-> "gpt-4o", limit |-> 128000],
     [key |-> "gpt-3.5-turbo", limit |-> 16385],
     [key |-> "claude-3-opus", limit |-> 200000],
     [key |-> "claude-3-sonnet", limit |-> 200000],
     [key |-> "claude-3-haiku", limit |-> 200000],
     [key |-> "claude-3-5-sonnet", limit |-> 200000],
     [key |-> "deepseek-chat", limit |-> 64000],
     [key |-> "deepseek-coder", limit |-> 16000],
     [key |-> "moonshot-v1", limit |-> 32000],
     [key |-> "qwen-max", limit |-> 32000],
     [key |-> "qwen-plus", limit |-> 32000],
     [key |-> "abab6.5s-chat", limit |-> 32000],
     [key |-> "default", limit |-> 8192] >>

\* String.prototype.includes
includes(str, sub) ==
  \E i \in 1..(Len(str) - Len(sub) + 1) : SubSeq(str, i, i + Len(sub) - 1) = sub

\* findModelLimit: the limit of the first key the lower-cased id contains
findModelLimit(modelId) ==
  LET hits == {k \in 1..Len(MODEL_CONTEXT_LIMITS) :
                 includes(toLowerCase(Chars(modelId)),
                          toLowerCase(Chars(MODEL_CONTEXT_LIMITS[k].key)))}
  IN IF hits = {} THEN MODEL_CONTEXT_LIMITS[Len(MODEL_CONTEXT_LIMITS)].limit
     ELSE MODEL_CONTEXT_LIMITS[CHOOSE k \in hits : \A h \in hits : k <= h].limit

\* the ids the host names a model by
ModelIds ==
  {MODEL_CONTEXT_LIMITS[k].key : k \in 1..Len(MODEL_CONTEXT_LIMITS)}
    \cup {"GPT-4o", "openai/gpt-4o-mini", "llama-3-70b"}

\* A memory text is `zh` Chinese characters followed by `other` characters of
\* other scripts.
TextLength(text) == text.zh + text.other

\* estimateTokens: Math.ceil(chineseChars / 1.5 + otherChars / 4)
estimateTokens(text) ==
  IF TextLength(text) = 0 THEN 0 ELSE (8 * text.zh + 3 * text.other + 11) \div 12

\* String.prototype.substring(0, n)
substring(text, n) ==
  LET k == Max(0, n)
  IN [zh |-> IF text.zh < k THEN text.zh ELSE k,
      other |-> IF text.zh >= k THEN 0
                ELSE IF text.other < k - text.zh THEN text.other ELSE k - text.zh]

\* `+ "..."`
Ellipsis(text) == [text EXCEPT !.other = @ + 3]

\* truncateMemory
truncateMemory(mem, maxTokens) ==
  LET maxChars == maxTokens * 2
  IN IF TextLength(mem.memory) <= maxChars THEN mem
     ELSE [mem EXCEPT !.memory = Ellipsis(substring(mem.memory, maxChars - 3))]

\* the comparator of the sort: a before b
Before(a, b) ==
  \/ a.score > b.score
  \/ a.score = b.score /\ a.created_at > b.created_at

\* [...memories].sort(comparator): a stable sort
RECURSIVE InsertSorted(_, _)
InsertSorted(sorted, m) ==
  IF sorted = <<>> THEN <<m>>
  ELSE IF Before(m, Head(sorted)) THEN <<m>> \o sorted
  ELSE <<Head(sorted)>> \o InsertSorted(Tail(sorted), m)
RECURSIVE Sorted(_)
Sorted(memories) ==
  IF memories = <<>> THEN <<>>
  ELSE InsertSorted(Sorted(SubSeq(memories, 1, Len(memories) - 1)), memories[Len(memories)])

\* the budget: Math.max(MIN, Math.min(MAX, Math.floor(limit * ratio)))
Budget(effectiveLimit) ==
  Max(MIN_MEMORY_TOKENS,
      Min(MAX_MEMORY_TOKENS, (effectiveLimit * MEMORY_BUDGET_RATIO) \div 100))

\* the selection loop over the sorted memories
RECURSIVE Selected(_, _, _, _, _)
Selected(sorted, selected, currentTokens, budget, maxMemories) ==
  IF sorted = <<>> \/ Len(selected) >= maxMemories
    THEN [memories |-> selected, tokens |-> currentTokens]
  ELSE LET mem == Head(sorted)
           memTokens == estimateTokens(mem.memory) + 10
       IN IF currentTokens + memTokens <= budget
            THEN Selected(Tail(sorted), Append(selected, mem), currentTokens + memTokens,
                          budget, maxMemories)
          ELSE IF selected = <<>>
            THEN [memories |-> <<truncateMemory(mem, budget - MEMORY_OVERHEAD - 20)>>,
                  tokens |-> budget]
          ELSE [memories |-> selected, tokens |-> currentTokens]

\* buildMemoryContext(memories, {modelId, maxMemories})
buildMemoryContext(memories, modelId, maxMemories) ==
  LET modelLimit == findModelLimit(modelId)
      budget == Budget(modelLimit)
      picked == Selected(Sorted(memories), <<>>, MEMORY_OVERHEAD, budget, maxMemories)
  IN [fn |-> "buildMemoryContext", modelLimit |-> modelLimit, budget |-> budget,
      selected |-> IF memories = <<>> THEN <<>> ELSE picked.memories,
      injectedCount |-> IF memories = <<>> THEN 0 ELSE Len(picked.memories),
      estimatedTokens |-> IF memories = <<>> THEN 0 ELSE picked.tokens]

\* the memories of a recall: a short note, a Chinese note of some length, and a
\* Chinese and an English text too long for any budget
Texts ==
  {[zh |-> 0, other |-> 40], [zh |-> 900, other |-> 20],
   [zh |-> 9000, other |-> 0], [zh |-> 0, other |-> 30000]}
Recalled ==
  [score : {0, 1}, created_at : 1..2, memory : Texts]
ContextInputs ==
  {[fn |-> "buildMemoryContext", modelId |-> id, maxMemories |-> k,
    memories |-> [i \in 1..Len(ms) |-> [id |-> i, score |-> ms[i].score,
                                        created_at |-> ms[i].created_at,
                                        memory |-> ms[i].memory]]] :
     id \in ModelIds, k \in 1..MaxRecalled, ms \in SeqsUpTo(Recalled, MaxRecalled)}

BuildMemoryContext(in) ==
  /\ input = NoCall
  /\ input' = in
  /\ output' = buildMemoryContext(in.memories, in.modelId, in.maxMemories)
  /\ UNCHANGED <<storeVars, recallVars, reflVars, captureVars, serviceVars, initVars, now>>

\* ------------------------------------------------------------ memory_forget

\* params.query: absent, or a text; the memory texts the store holds
NoQuery == <<>>
ForgetQueries == {NoQuery, Chars(" Tea"), Chars("te")}
MemoryTexts == {Chars("tea "), Chars("tea pot")}
\* params.memoryId: 0 when absent
NoMemoryId == 0

\* the session search of the call returns one hit at most
SessionOutcomes ==
  {Rejected} \cup {[ok |-> TRUE, ids |-> q] : q \in SeqsUpTo(1..MaxHitId, 1)}

\* the parameters, whether currentSessionId is set, what the two searches settle
\* with, the text of each memory and whether provider.delete resolves
ForgetInputs ==
  [fn : {"memory_forget"}, memoryId : {NoMemoryId} \cup 1..MaxHitId, query : ForgetQueries,
   deleteAll : BOOLEAN, scope : Scopes, session : BOOLEAN,
   longTerm : SubSearchOutcomes, sessionHits : SessionOutcomes,
   text : [1..MaxHitId -> MemoryTexts], deleteOk : BOOLEAN]

\* String(x).trim().toLowerCase()
Normalized(str) == toLowerCase(trim(str))

\* a handler that deletes the first candidate of any list
AnyCandidate(candidates) == Len(candidates) >= 1

\* `candidates.length === 1`
SingleCandidate(candidates) == Len(candidates) = 1

\* what the handler returns and what it deleted
ForgetResult(kind, deleted, candidates) ==
  [fn |-> "memory_forget", kind |-> kind, deleted |-> deleted, candidates |-> candidates]

\* memory_forget.execute: by id first; else by query: the two searches, the
\* merge, the exact matches, then delete all, delete the single candidate, or
\* list the candidates; a rejection anywhere is returned as an error text
memory_forget(in) ==
  IF in.memoryId # NoMemoryId
    THEN IF in.deleteOk THEN ForgetResult("deleted", {in.memoryId}, <<>>)
         ELSE ForgetResult("error", {}, <<>>)
  ELSE IF in.query = NoQuery THEN ForgetResult("usage", {}, <<>>)
  ELSE
    LET needLongTerm == in.scope \in {"long-term", "all"}
        needSession == in.scope \in {"session", "all"} /\ in.session
        lt == IF needLongTerm THEN in.longTerm ELSE [ok |-> TRUE, ids |-> <<>>]
        se == IF needSession THEN in.sessionHits ELSE [ok |-> TRUE, ids |-> <<>>]
        results == pushUnique(<<>>, FromSource(lt.ids, "long-term")
                                      \o FromSource(se.ids, "session"))
        exactMatches == SelectSeq(results,
                          LAMBDA item : Normalized(in.text[item.id]) = Normalized(in.query))
        candidates == IF Len(exactMatches) > 0 THEN exactMatches ELSE results
        ids == [i \in 1..Len(candidates) |-> candidates[i].id]
    IN IF ~lt.ok \/ ~se.ok THEN ForgetResult("error", {}, <<>>)
       ELSE IF results = <<>> THEN ForgetResult("none", {}, <<>>)
       ELSE IF in.deleteAll
         THEN ForgetResult("bulk", IF in.deleteOk THEN Range(ids) ELSE {}, ids)
       ELSE IF SingleCandidate(candidates)
         THEN IF in.deleteOk THEN ForgetResult("deleted", {ids[1]}, ids)
              ELSE ForgetResult("error", {}, ids)
       ELSE ForgetResult("list", {}, ids)

MemoryForget(in) ==
  /\ input = NoCall
  /\ input' = in
  /\ output' = memory_forget(in)
  /\ UNCHANGED <<storeVars, recallVars, reflVars, captureVars, serviceVars, initVars, now>>

\* ------------------------------------------------------ mem0 import-legacy

\* lines of a legacy memory.md
LegacyLines == {Chars(""), Chars("  tea "), Chars("User likes tea"), Chars(" I code. ")}
\* the text of the file: its lines joined by newlines
LegacyFiles == {JoinLines(ls) : ls \in SeqsUpTo(LegacyLines, MaxLines) \ {<<>>}}

\* whether memory.md exists, its text, and which provider.add rejects (0: none)
ImportInputs ==
  [fn : {"import_legacy"}, exists : BOOLEAN, content : LegacyFiles, failAt : 0..MaxLines]

RECURSIVE split(_, _)
\* String.prototype.split(sep) for a separator of one character
split(str, sep) ==
  IF \A i \in 1..Len(str) : str[i] # sep THEN <<str>>
  ELSE LET i == CHOOSE j \in 1..Len(str) :
                  str[j] = sep /\ \A k \in 1..(j - 1) : str[k] # sep
       IN <<SubSeq(str, 1, i - 1)>> \o split(SubSeq(str, i + 1, Len(str)), sep)

\* `l.trim().length > 5`
Qualifies(l) == Len(trim(l)) > 5

\* the action of `mem0 import-legacy`: the lines handed to provider.add, in call
\* order; a rejected add ends the action with the rejection
import_legacy(in) ==
  IF ~in.exists THEN [fn |-> "import_legacy", adds |-> <<>>, complete |-> FALSE]
  ELSE LET lines == SelectSeq(split(in.content, "\n"), Qualifies)
           last == IF in.failAt \in 1..Len(lines) THEN in.failAt ELSE Len(lines)
       IN [fn |-> "import_legacy", adds |-> SubSeq(lines, 1, last),
           complete |-> lines # <<>> /\ in.failAt \notin 1..Len(lines)]

ImportLegacy(in) ==
  /\ input = NoCall
  /\ input' = in
  /\ output' = import_legacy(in)
  /\ UNCHANGED <<storeVars, recallVars, reflVars, captureVars, serviceVars, initVars, now>>

\* ------------------------------------- ensureMemory, _init, withCwdSwitchLock

InitInFlight == {"importing", "locked"}
InitFinished == {"done", "failed"}

\* a failed promise that stays in this.initPromise
KeptOnFailure(n) == n

\* the catch handler of ensureMemory: `this.initPromise = null`
ResetOnFailure(n) == 0

\* a section that leaves the process in the data directory
Unrestored(originalCwd, dir) == dir

\* the section of _init: process.chdir(baseDir), new Memory(config), and in
\* the finally process.chdir(originalCwd); no await in between
Restored(originalCwd, dir) == originalCwd

\* the promise of _init invocation n settles: every caller that awaits it resumes
Settled(n, pc) ==
  [c \in CallerIds |-> IF callers[c].pc = "waiting" /\ callers[c].init = n
                         THEN [callers[c] EXCEPT !.pc = pc] ELSE callers[c]]

\* _init throws: the promise rejects and the catch handler runs
InitFails(n) ==
  /\ initPromise' = [initPromise EXCEPT ![inits[n].provider] = ResetOnFailure(n)]
  /\ callers' = Settled(n, "failed")
  /\ UNCHANGED memory

\* ensureMemory(): returns at once when this.memory is set, returns the
\* initPromise when there is one, else calls _init(), which runs up to
\* `await import("mem0ai/oss")`
EnsureMemory(c, p) ==
  /\ callers[c].pc = "idle"
  /\ memory[p] \/ initPromise[p] # 0 \/ Len(inits) < MaxInits
  /\ IF memory[p]
       THEN /\ callers' = [callers EXCEPT ![c] = [IdleCaller EXCEPT !.pc = "ok", !.provider = p]]
            /\ UNCHANGED <<initPromise, inits>>
       ELSE IF initPromise[p] # 0
         THEN /\ callers' = [callers EXCEPT ![c] =
                   [pc |-> IF inits[initPromise[p]].pc = "failed" THEN "failed" ELSE "waiting",
                    provider |-> p, init |-> initPromise[p],
                    joined |-> inits[initPromise[p]].pc]]
              /\ UNCHANGED <<initPromise, inits>>
         ELSE /\ inits' = Append(inits, [provider |-> p, pc |-> "importing",
                                          originalCwd |-> "none", cwdAtEntry |-> "none",
                                          cwdAtExit |-> "none"])
              /\ initPromise' = [initPromise EXCEPT ![p] = Len(inits) + 1]
              /\ callers' = [callers EXCEPT ![c] =
                   [pc |-> "waiting", provider |-> p, init |-> Len(inits) + 1,
                    joined |-> "started"]]
  /\ UNCHANGED <<cwd, cwdSwitchChain, memory>>

\* _init resumed after the import: a rejection or a throw while the config is
\* built fails it; otherwise originalCwd is read, the gate is chained and
\* withCwdSwitchLock awaits the previous gates
InitImported(n, ok) ==
  /\ n \in DOMAIN inits /\ inits[n].pc = "importing"
  /\ IF ok
       THEN /\ inits' = [inits EXCEPT ![n] = [@ EXCEPT !.pc = "locked", !.originalCwd = cwd]]
            /\ cwdSwitchChain' = Append(cwdSwitchChain, n)
            /\ UNCHANGED <<memory, initPromise, callers>>
       ELSE /\ inits' = [inits EXCEPT ![n] = [@ EXCEPT !.pc = "failed"]]
            /\ InitFails(n)
            /\ UNCHANGED cwdSwitchChain
  /\ UNCHANGED cwd

\* the gates chained before that of n have been released
GateOpen(n) ==
  \A i \in 1..Len(cwdSwitchChain) :
    (\E j \in (i + 1)..Len(cwdSwitchChain) : cwdSwitchChain[j] = n)
      => inits[cwdSwitchChain[i]].pc \in InitFinished

\* withCwdSwitchLock resumed: the section runs, the gate is released
InitConstruct(n, ok) ==
  /\ n \in DOMAIN inits /\ inits[n].pc = "locked"
  /\ GateOpen(n)
  /\ cwd' = Restored(inits[n].originalCwd, baseDir(inits[n].provider))
  /\ inits' = [inits EXCEPT ![n] = [@ EXCEPT !.pc = IF ok THEN "done" ELSE "failed",
                                             !.cwdAtEntry = cwd, !.cwdAtExit = cwd']]
  /\ IF ok
       THEN /\ memory' = [memory EXCEPT ![inits[n].provider] = TRUE]
            /\ callers' = Settled(n, "ok")
            /\ UNCHANGED initPromise
       ELSE InitFails(n)
  /\ UNCHANGED cwdSwitchChain

\* The provider with its WriteQueue, the tool handlers' writes and pruning
\* the store on its own: no action file was loaded
StoreInit0 == Init /\ pendingActions = <<>>
Next == StoreNext /\ UNCHANGED <<reflVars, hookVars>>
Spec == StoreInit0 /\ [][Next]_vars

\* Recall beside the writes: a smaller store, so that the searches can interleave
\* with every write path
RecallInit0 == StoreInit0 /\ Cardinality(hot) <= RecallInitHot
RecallNext ==
  \/ nextTask <= RecallCalls /\ CallAdd
  \/ \E m \in 1..(nextMem - 1) : nextTask <= RecallCalls /\ ForgetById(m)
  \/ \E p \in PruneIds : PruneStart(p, 1)
  \/ \E p \in PruneIds : PruneGetAll(p)
  \/ \E p \in PruneIds, ok \in BOOLEAN : PruneArchive(p, ok)
  \/ \E t \in active, ok \in BOOLEAN, extracted \in BOOLEAN : TaskSettles(t, ok, extracted)
  \/ \E s \in SearchIds, key \in Keys : SearchStart(s, key)
  \/ \E s \in SearchIds : SearchRead(s)
  \/ \E s \in SearchIds : SearchFinish(s)
  \/ TimePasses(SEARCH_CACHE_TTL_MS)
RecallStep == RecallNext /\ UNCHANGED <<reflVars, hookVars>>
RecallSpec == RecallInit0 /\ [][RecallStep]_vars

\* The search cache at its cap.  Each start is the state after that many
\* searches for distinct keys have been stored at time 0; in half of them a
\* second search for key 1, which missed before key 1 was stored, is still
\* waiting for the store.  The keys searched next are the oldest key and a key
\* the cache has never held.
FilledSizes == {0, SEARCH_CACHE_MAX_ENTRIES - 1, SEARCH_CACHE_MAX_ENTRIES}
CacheKeys == {1, SEARCH_CACHE_MAX_ENTRIES + 1}
FilledCache(n) ==
  [i \in 1..n |-> [key |-> i, expiresAt |-> SEARCH_CACHE_TTL_MS, results |-> {1}]]
Waiting(key) == [IdleSearch EXCEPT !.pc = "searching", !.key = key]
CacheInit0 ==
  /\ StoreInit /\ hot = {1}
  /\ \E n \in FilledSizes : searchCache = FilledCache(n)
  /\ \/ searches = [s \in SearchIds |-> IdleSearch]
     \/ /\ searchCache # <<>>
        /\ searches = [s \in SearchIds |-> IF s = 1 THEN Waiting(1) ELSE IdleSearch]
  /\ ReflectInit /\ pendingActions = <<>>
  /\ CaptureInit /\ ServiceInit /\ PureInit /\ ProviderInit /\ now = 0
CacheNext ==
  \/ \E s \in SearchIds, key \in CacheKeys : SearchStart(s, key)
  \/ \E s \in SearchIds : SearchRead(s)
  \/ \E s \in SearchIds : SearchFinish(s)
  \/ TimePasses(SEARCH_CACHE_TTL_MS)
CacheStep == CacheNext /\ UNCHANGED <<reflVars, hookVars>>
CacheSpec == CacheInit0 /\ [][CacheStep]_vars

\* The ReflectionEngine under its callers
ReflectNext ==
  \/ \E r \in ReflectIds : ReflectStart(r)
  \/ \E r \in ReflectIds, out \in LLMResults : ReflectFinish(r, out)
  \/ HeartbeatPoll
  \/ BeforeTurnPoll
  \/ \E id \in tickFired : MarkActionFailed(id)
  \/ ReflectTimePasses(HEARTBEAT_MS)
  \/ ReflectTimePasses(ACTION_TTL_MS)
ReflectStep == ReflectNext /\ UNCHANGED <<storeVars, recallVars, monitorVars, hookVars>>
ReflectInit0 == Init /\ hot = {}
ReflectSpec == ReflectInit0 /\ [][ReflectStep]_vars

\* The same calls with the monitor beside them, from an empty action file
HistoryNext ==
  \/ \E r \in ReflectIds : ReflectStart(r) /\ ObserveCalled(r)
  \/ \E r \in ReflectIds, out \in LLMResults : ReflectFinish(r, out) /\ ObserveReturned(r, out)
  \/ HeartbeatPoll /\ PollReturned
  \/ BeforeTurnPoll /\ PollReturned
  \/ \E id \in tickFired : MarkActionFailed(id) /\ FailedCalled(id)
  \/ ReflectTimePasses(HEARTBEAT_MS) /\ TimeSeen(HEARTBEAT_MS)
  \/ ReflectTimePasses(ACTION_TTL_MS) /\ TimeSeen(ACTION_TTL_MS)
HistoryStep == HistoryNext /\ UNCHANGED <<storeVars, recallVars, hookVars>>
HistoryInit0 == ReflectInit0 /\ pendingActions = <<>>
HistorySpec == HistoryInit0 /\ [][HistoryStep]_vars

\* The engine under a heartbeat that never misses a beat: the clock moves only
\* with the interval and every beat polls
\* a delay that ends one beat before the action expires, in minutes
NearExpiry == (ACTION_TTL_MS - HEARTBEAT_MS) \div 60000
BeatResults ==
  {[act |-> FALSE, delay |-> 0], [act |-> TRUE, delay |-> 0], [act |-> TRUE, delay |-> NearExpiry]}
\* the beats up to two before the expiry of an action created now
LongQuiet == ACTION_TTL_MS - 2 * HEARTBEAT_MS

\* the interval elapses and its callback polls
Beat ==
  /\ (now % LongQuiet) < MaxTicks * HEARTBEAT_MS
  /\ now + HEARTBEAT_MS <= ACTION_TTL_MS + MaxTicks * HEARTBEAT_MS
  /\ now' = now + HEARTBEAT_MS
  /\ LET res == checkPendingActions(pendingActions, now') IN
     /\ Polled(res)
     /\ tickFired' = IF res.id # 0 THEN tickFired \cup {res.id} ELSE tickFired
  /\ UNCHANGED <<reflects, injected>>

\* beats at which nothing is due and nothing is pruned, taken together: what
\* is neither due nor expired at the last of them was neither at the others
QuietBeats ==
  /\ now < LongQuiet
  /\ LET res == checkPendingActions(pendingActions, now + LongQuiet) IN
     res.id = 0 /\ res.actions = pendingActions
  /\ now' = now + LongQuiet
  /\ UNCHANGED <<pendingActions, actionsFile, reflects, injected, tickFired>>

BeatNext ==
  \/ \E r \in ReflectIds : ReflectStart(r)
  \/ \E r \in ReflectIds, out \in BeatResults : ReflectFinish(r, out)
  \/ BeforeTurnPoll
  \/ Beat
  \/ QuietBeats
BeatStep == BeatNext /\ UNCHANGED <<storeVars, recallVars, monitorVars, hookVars>>
BeatSpec ==
  /\ HistoryInit0 /\ [][BeatStep]_vars
  /\ WF_vars((Beat \/ QuietBeats) /\ UNCHANGED <<storeVars, recallVars, monitorVars, hookVars>>)

\* The engine under the callers that the plugin has: the heartbeat and
\* before_agent_start poll, flushCaptureBuffer reflects, nothing calls
\* markActionFailed
TickNext ==
  \/ \E r \in ReflectIds : ReflectStart(r)
  \/ \E r \in ReflectIds, out \in LLMResults : ReflectFinish(r, out)
  \/ HeartbeatPoll
  \/ BeforeTurnPoll
  \/ ReflectTimePasses(HEARTBEAT_MS)
  \/ ReflectTimePasses(ACTION_TTL_MS)
TickStep == TickNext /\ UNCHANGED <<storeVars, recallVars, monitorVars, hookVars>>
TickSpec == HistoryInit0 /\ [][TickStep]_vars

\* loadActions() of what saveActions() wrote: JSON.stringify writes the number
\* Infinity as null, and the null that JSON.parse returns counts as 0 in
\* `triggerAt <= now`
loadActions(file) ==
  [i \in DOMAIN file |-> [file[i] EXCEPT !.triggerAt = IF @ = Infinity THEN 0 ELSE @]]

\* the process ends and the plugin is registered again: the constructor loads
\* the action file; reflect() calls that awaited the model are gone
Restart ==
  /\ pendingActions' = loadActions(actionsFile)
  /\ reflects' = [r \in ReflectIds |->
                    IF reflects[r].pc = "awaiting" THEN [pc |-> "lost"] ELSE reflects[r]]
  /\ UNCHANGED <<actionsFile, injected, tickFired, now>>

\* The engine with restarts between its calls
PersistNext ==
  \/ ReflectNext
  \/ \E r \in ReflectIds : ReflectFinish(r, HugeAnswer)
  \/ Restart
PersistStep == PersistNext /\ UNCHANGED <<storeVars, recallVars, monitorVars, hookVars>>
PersistSpec == HistoryInit0 /\ [][PersistStep]_vars

\* The writes alone: the tool handlers' calls and the prune pass of service.start
QueueNext ==
  \/ CallAdd
  \/ \E m \in 1..(nextMem - 1) : ForgetById(m)
  \/ PruneStart(1, 1)
  \/ PruneGetAll(1)
  \/ \E ok \in BOOLEAN : PruneArchive(1, ok)
  \/ \E t \in active, ok \in BOOLEAN, extracted \in BOOLEAN : TaskSettles(t, ok, extracted)
QueueStep == QueueNext /\ UNCHANGED <<reflVars, hookVars>>

\* The tasks' futures settle: memory.add and memory.delete return or throw (SQLite
\* and the model calls end or time out), after which process() is resumed.
FairSpec ==
  /\ RecallInit0
  /\ [][QueueStep]_vars
  /\ WF_vars(\E t \in active, ok \in BOOLEAN, extracted \in BOOLEAN :
               TaskSettles(t, ok, extracted) /\ UNCHANGED <<reflVars, hookVars>>)

\* =================================================================== claims

TaskIds == 1..(MaxCalls + MaxPrunes * MaxMem)

\* C1: pruning deletes from the hot store only if the archive append of the
\* overflow slice succeeded; after a failed append the prune deletes nothing.
C1_NoDeleteAfterFailedArchive ==
  \A p \in PruneIds : prunes[p].archived = "failed" => prunes[p].deleted = 0

\* C2: every memory a prune run hands to the hot store for deletion has been
\* appended to the archive before its delete begins.
C2_ArchivedBeforeDelete ==
  \A t \in PendingTasks : t.owner \in PruneIds => t.mem \in Range(archive)

\* C5: a memory_search issued now is never answered from the cache with results
\* that were read before an acknowledged mutation: every live cache entry holds
\* what a search of the hot store returns.
C5_RecallObservesMutations ==
  \A i \in 1..Len(searchCache) :
    searchCache[i].expiresAt > now => searchCache[i].results = SearchResults(hot)

\* C6: at most one WriteQueue task is executing, and a task is executing or done
\* only when every task enqueued before it has settled (resolved or rejected);
\* the tasks still queued are in enqueue order.
C6_SerialFifo ==
  /\ Cardinality(active) <= 1
  /\ \A t \in active : \A i \in 1..(t.id - 1) : i \in settled
  /\ \A i \in settled : \A j \in 1..(i - 1) : j \in settled
  /\ \A i, j \in 1..Len(queue) : i < j => queue[i].id < queue[j].id
  /\ \A t \in active : \A i \in 1..Len(queue) : t.id < queue[i].id

\* a task runs, with another waiting behind it, after an earlier task threw
C6_Witness ==
  /\ Cardinality(active) = 1
  /\ Len(queue) >= 1
  /\ rejected # {}

\* C7: every task handed to enqueue is eventually run and its future settled.
C7_EveryTaskSettles ==
  \A i \in TaskIds : (i < nextTask) ~> (i \in settled)

\* a task enqueued while the queue was processing has settled after an earlier
\* task threw
C7_Witness ==
  /\ stats.queueMax >= 2
  /\ \E i \in rejected : \E j \in settled : i < j

TimerNext ==
  \/ \E p \in PruneIds : Start(p) /\ UNCHANGED <<recallVars, reflVars, captureVars, pureVars, initVars, now>>
  \/ Stop /\ UNCHANGED <<hot, nextMem, archive, settled, rejected, prunes, recallVars,
                         reflVars, pureVars, initVars, now>>
  \/ \E i \in intervals : Tick(i) /\ UNCHANGED <<storeVars, recallVars, monitorVars, captureVars, pureVars, initVars>>
  \/ \E caller \in StatusCallers, ok \in BOOLEAN :
       StatusWrite(caller, ok) /\ UNCHANGED <<storeVars, recallVars, reflVars, captureVars, pureVars, initVars, now>>
  \/ \E p \in PruneIds : PruneGetAll(p) /\ UNCHANGED <<reflVars, hookVars>>
  \/ \E p \in PruneIds, ok \in BOOLEAN : PruneArchive(p, ok) /\ UNCHANGED <<reflVars, hookVars>>
TimerSpec == HistoryInit0 /\ [][TimerNext]_vars

\* The status file as a reader outside the process sees it: nothing else runs in
\* the process while writeFileSync is writing
SnapshotNext ==
  \/ \E p \in PruneIds : ~Writing /\ Start(p)
       /\ UNCHANGED <<recallVars, reflVars, captureVars, pureVars, initVars, now>>
  \/ ~Writing /\ Stop
       /\ UNCHANGED <<hot, nextMem, archive, settled, rejected, prunes, recallVars,
                      reflVars, pureVars, initVars, now>>
  \/ \E i \in intervals : ~Writing /\ Tick(i)
       /\ UNCHANGED <<storeVars, recallVars, monitorVars, captureVars, pureVars, initVars>>
  \/ \E caller \in StatusCallers, ok \in BOOLEAN : StatusOpen(caller, ok)
       /\ UNCHANGED <<storeVars, recallVars, reflVars, captureVars, pureVars, initVars, now>>
  \/ StatusClose
       /\ UNCHANGED <<storeVars, recallVars, reflVars, captureVars, pureVars, initVars, now>>
SnapshotSpec == HistoryInit0 /\ [][SnapshotNext]_vars

\* Shutdown beside the capture path: one-message turns, flush timers, the
\* flushes to their end, service.stop and its status write
TimerStep ==
  \E key \in BufferKeys :
    /\ TimerFires(key)
    /\ UNCHANGED <<hot, nextMem, archive, settled, rejected, prunes, recallVars,
                   reflVars, serviceVars, pureVars, initVars, now>>
AddStep ==
  \E f \in DOMAIN flushes, ok \in BOOLEAN, extracted \in BOOLEAN :
    FlushAddSettles(f, ok, extracted) /\ UNCHANGED <<reflVars, serviceVars, pureVars, initVars>>
SearchStep ==
  \E f \in DOMAIN flushes, r \in ReflectIds :
    /\ reflects[r].pc = "idle" /\ \A r2 \in 1..(r - 1) : reflects[r2].pc # "idle"
    /\ FlushSearched(f, r)
    /\ UNCHANGED <<storeVars, recallVars, monitorVars, serviceVars, pureVars, initVars>>
TurnStep ==
  \E success \in BOOLEAN, ctx \in Sessions :
    /\ nextTurn <= MaxTurns
    /\ AgentEnd(success, ctx, ShortTurn)
    /\ UNCHANGED <<storeVars, recallVars, reflVars, serviceVars, pureVars, initVars, now>>
ShutdownNext ==
  \/ Stop /\ UNCHANGED <<hot, nextMem, archive, settled, rejected, prunes, recallVars,
                         reflVars, pureVars, initVars, now>>
  \/ \E caller \in StatusCallers, ok \in BOOLEAN :
       StatusWrite(caller, ok) /\ UNCHANGED <<storeVars, recallVars, reflVars, captureVars, pureVars, initVars, now>>
  \/ TurnStep
  \/ TimerStep
  \/ AddStep
  \/ SearchStep
ShutdownSpec == HistoryInit0 /\ [][ShutdownNext]_vars

\* The hand-off to provider.add alone: turns end, timers fire, service.stop
\* flushes every key and the adds settle
HandoffNext ==
  \/ Stop /\ UNCHANGED <<hot, nextMem, archive, settled, rejected, prunes, recallVars,
                         reflVars, pureVars, initVars, now>>
  \/ TurnStep
  \/ TimerStep
  \/ AddStep
HandoffSpec == HistoryInit0 /\ [][HandoffNext]_vars

\* The capture path left to itself: turns end or fail, an armed timer fires,
\* the language model and the store answer
FlushNext == TurnStep \/ TimerStep \/ AddStep \/ SearchStep
FairFlushSpec ==
  /\ HistoryInit0 /\ [][FlushNext]_vars
  /\ WF_vars(TimerStep \/ AddStep \/ SearchStep)

\* memory_search under every scope and every outcome of its sub-searches
MergeNext == input = NoCall /\ \E in \in SearchInputs : MemorySearch(in)
MergeSpec == HistoryInit0 /\ [][MergeNext]_vars

\* makeSearchCacheKey alone: one key is built
KeyNext == input = NoCall /\ \E in \in KeyInputs : MakeSearchCacheKey(in)
KeySpec == HistoryInit0 /\ [][KeyNext]_vars

\* buildMemoryContext alone: one context is built
ContextNext == input = NoCall /\ \E in \in ContextInputs : BuildMemoryContext(in)
ContextSpec == HistoryInit0 /\ [][ContextNext]_vars

\* memory_forget alone: one call
ForgetNext == input = NoCall /\ \E in \in ForgetInputs : MemoryForget(in)
ForgetSpec == HistoryInit0 /\ [][ForgetNext]_vars

ImportNext == input = NoCall /\ \E in \in ImportInputs : ImportLegacy(in)
ImportSpec == HistoryInit0 /\ [][ImportNext]_vars

\* Provider initialisation alone
InitNext ==
  \/ \E c \in CallerIds, p \in ProviderIds : EnsureMemory(c, p)
  \/ \E n \in 1..MaxInits, ok \in BOOLEAN : InitImported(n, ok)
  \/ \E n \in 1..MaxInits, ok \in BOOLEAN : InitConstruct(n, ok)
InitStep ==
  InitNext /\ UNCHANGED <<storeVars, recallVars, reflVars, captureVars, serviceVars,
                          pureVars, now>>
InitSpec == HistoryInit0 /\ [][InitStep]_vars

\* The hooks and the batcher up to the hand-off: turns of every shape end
\* under every context and the timers fire
CaptureNext ==
  \/ \E ctx \in Sessions : BeforeAgentStart(ctx) /\ UNCHANGED <<storeVars, recallVars, reflVars, now>>
  \/ \E success \in BOOLEAN, ctx \in Sessions, raw \in TurnEvents :
       /\ nextTurn <= MaxTurns
       /\ AgentEnd(success, ctx, raw)
       /\ UNCHANGED <<storeVars, recallVars, reflVars, now>>
  \/ \E key \in BufferKeys :
       /\ TimerFires(key)
       /\ UNCHANGED <<hot, nextMem, archive, settled, rejected, prunes, recallVars,
                      reflVars, now>>
CaptureStep == CaptureNext /\ UNCHANGED <<serviceVars, pureVars, initVars>>
CaptureSpec == HistoryInit0 /\ [][CaptureStep]_vars

\* ------------------------------------------------------ Reflection claims

Unfired(acts) == {i \in 1..Len(acts) : ~acts[i].fired}
\* what checkPendingActions would return now
NextDue == checkPendingActions(pendingActions, now).id

\* C3: no action id is delivered twice: over observe, polls from the heartbeat
\* and from before_agent_start, markActionFailed for undelivered actions and
\* pruning, each id enters a system context at most once.
C3_AtMostOnceDelivery ==
  \A i, j \in 1..Len(injected) : i # j => injected[i] # injected[j]

\* an action that the heartbeat fired and markActionFailed re-armed has been
\* delivered by before_agent_start
C3_Witness ==
  \E i \in 1..Len(pendingActions) :
    /\ pendingActions[i].fired
    /\ pendingActions[i].deliveryAttempts >= 1
    /\ pendingActions[i].id \in Range(injected)

\* C4 as stated: poll returns a due action, a second poll returns nothing, and
\* after markActionFailed(id) the next poll returns the action again.
C4_RearmAfterSecondPoll ==
  (/\ Len(hist) = 3
   /\ hist[1].op = "poll" /\ hist[1].id # 0
   /\ hist[2] = [op |-> "poll", id |-> 0]
   /\ hist[3] = [op |-> "failed", id |-> hist[1].id])
  => NextDue = hist[1].id

\* C9: the results returned so far are those of some sequential order of atomic
\* observe, poll and mark_failed calls that respects real time.
C9_Linearizable == lin # {}

\* C10: the engine never holds more than MAX_PENDING unfired actions.
C10_AtMostMaxPendingUnfired == Cardinality(Unfired(pendingActions)) <= MAX_PENDING

\* C11: an action that the heartbeat's poll fired and that was delivered to
\* nobody stays in the engine, to be re-armed for a later tick or for the next
\* turn's context.
C11_TickFiredStaysAvailable ==
  \A id \in tickFired : HasAction(pendingActions, id)

\* C12: the action file holds the in-memory action list after every call of the
\* engine (append by reflect, fired flip by checkPendingActions, re-arm by
\* markActionFailed, pruneActions), so a restart reloads the list as it was.
C12_WriteThrough == loadActions(actionsFile) = pendingActions

\* observation order: the turns in the order their agent_end ran, a turn's
\* messages in the order of event.messages
ObservedBefore(a, b) == a[1] < b[1] \/ (a[1] = b[1] /\ a[2] < b[2])

\* C17: a buffer, and a batch handed to provider.add, holds only messages of
\* turns whose context carried the session id the batch is stored under.
C17_BatchOfOneSession ==
  /\ \A i \in DOMAIN captureBuffers : \A j \in DOMAIN captureBuffers[i].messages :
       captureBuffers[i].messages[j].from = captureBuffers[i].sessionId
  /\ \A i \in DOMAIN delivered : \A j \in DOMAIN delivered[i].payload :
       delivered[i].payload[j].from = delivered[i].sessionId

\* C18: a buffer holds at most captureBatchMaxMessages messages, and they are
\* the last ones scheduled into it: all of them while no more than that many
\* were scheduled, the last captureBatchMaxMessages afterwards.
C18_BufferKeepsLastN ==
  \A i \in DOMAIN captureBuffers :
    LET msgs == captureBuffers[i].messages
        all == appended[captureBuffers[i].key]
    IN /\ Len(msgs) <= captureBatchMaxMessages
       /\ Len(msgs) = IF Len(all) <= captureBatchMaxMessages THEN Len(all)
                      ELSE captureBatchMaxMessages
       /\ \A j \in 1..Len(msgs) : msgs[j] = all[Len(all) - Len(msgs) + j]
\* a buffer into which more than captureBatchMaxMessages messages were scheduled
C18_Witness ==
  \E i \in DOMAIN captureBuffers :
    Len(appended[captureBuffers[i].key]) > captureBatchMaxMessages

\* C19: the messages of a batch handed to provider.add are in observation order.
C19_DeliveredInObservationOrder ==
  \A i \in DOMAIN delivered : \A j, k \in DOMAIN delivered[i].payload :
    j < k => ObservedBefore(delivered[i].payload[j].obs, delivered[i].payload[k].obs)
\* a delivered batch with messages of two schedule calls, from which the
\* compaction dropped a message
C19_Witness ==
  \E i \in DOMAIN delivered :
    LET payload == delivered[i].payload IN
    /\ \E j, k \in DOMAIN payload : payload[j].obs[1] # payload[k].obs[1]
    /\ \E j \in 1..(Len(payload) - 1) :
         /\ payload[j].obs[1] = payload[j + 1].obs[1]
         /\ payload[j].obs[2] + 1 < payload[j + 1].obs[2]

\* C13: when service.stop returns, no capture buffer and no capture timer is
\* left and no flush is still waiting for its provider.add.
C13_StopAwaitsFlushes ==
  atStop.called => atStop.buffers = 0 /\ atStop.timers = 0 /\ atStop.inflight = {}

\* C14: the status that service.stop writes is written when the WriteQueue has
\* drained: it is never written while a write is queued or running.
C14_FinalStatusAfterDrain == statusFile.by = "stop" => statusFile.pending = 0

\* C15: at most one heartbeat interval is armed, and none when service.stop has
\* run after the last service.start.
C15_AtMostOneTickTimer ==
  /\ Cardinality(intervals) <= 1
  /\ atStop.called => atStop.intervals = {}

RECURSIVE ArchivedLines(_)
\* the lines that the prunes in P appended to the archive
ArchivedLines(P) ==
  IF P = {} THEN 0
  ELSE LET q == CHOOSE q \in P : TRUE
       IN (IF prunes[q].archived = "ok" THEN Len(prunes[q].toDelete) ELSE 0)
          + ArchivedLines(P \ {q})

\* C21: when a prune that found N > maxCount memories has returned, the archive
\* (empty before the first prune) has grown by the N - maxCount lines of its
\* overflow slice, the lines of other prunes apart.
C21_ArchiveGrowsByOverflow ==
  \A p \in PruneIds :
    prunes[p].pc = "done" /\ prunes[p].toDelete # <<>>
      => Len(archive) - ArchivedLines(PruneIds \ {p}) = Len(prunes[p].toDelete)

\* the sub-searches memory_search makes for an input, and what they settled with
Needed(in) ==
  (IF in.scope \in {"long-term", "all"} THEN {in.longTerm} ELSE {})
  \cup (IF in.scope \in {"session", "all"} /\ in.session THEN {in.sessionHits} ELSE {})
  \cup (IF in.deep /\ in.scope \in {"long-term", "all"} THEN {in.archived} ELSE {})

\* C22: a sub-search that fails counts as an empty list: memory_search does not
\* fail, and it returns results when another of its sub-searches found some.
C22_FailedSourceIsEmpty ==
  input.fn = "memory_search" =>
    /\ ~output.error
    /\ (\E o \in Needed(input) : o.ok /\ o.ids # <<>>) => output.results # <<>>

\* the sources of a search in the order the spec gives for its scope, all
\* sub-searches having succeeded
Concatenated(in) ==
  LET lt == FromSource(in.longTerm.ids, "long-term")
      se == IF in.session THEN FromSource(in.sessionHits.ids, "session") ELSE <<>>
      ar == IF in.deep THEN FromSource(in.archived.ids, "archive") ELSE <<>>
  IN IF in.scope = "session" THEN se
     ELSE IF in.scope = "long-term" THEN lt \o ar
     ELSE lt \o se \o ar
FirstAt(items, id) == CHOOSE i \in 1..Len(items) : items[i].id = id /\ \A j \in 1..(i - 1) : items[j].id # id

\* C23: when no sub-search failed, the merged list holds every id of the sources
\* once, each taken from its first occurrence in the order long-term, session,
\* archive, and in the order of those first occurrences.
C23_MergedInSourceOrder ==
  input.fn = "memory_search" /\ (\A o \in Needed(input) : o.ok) =>
    LET all == Concatenated(input)
        res == output.results
    IN /\ ~output.error
       /\ {res[i].id : i \in 1..Len(res)} = {all[i].id : i \in 1..Len(all)}
       /\ \A i, j \in 1..Len(res) : i # j => res[i].id # res[j].id
       /\ \A i \in 1..Len(res) : res[i] = all[FirstAt(all, res[i].id)]
       /\ \A i, j \in 1..Len(res) : i < j => FirstAt(all, res[i].id) < FirstAt(all, res[j].id)
\* a search over all three sources in which an id of the long-term results
\* occurs again in the session's and the archive's, after another id
C23_Witness ==
  /\ input.fn = "memory_search" /\ input.scope = "all" /\ input.deep /\ input.session
  /\ input.longTerm.ids = <<1, 2>> /\ input.sessionHits.ids = <<2, 1>>
  /\ input.archived.ids = <<2>>
  /\ Len(output.results) = 2

\* C24: after every operation on the search cache it holds at most
\* SEARCH_CACHE_MAX_ENTRIES entries, also when two searches for one key store
\* their results one after the other.
C24_CacheWithinCap == Len(searchCache) <= SEARCH_CACHE_MAX_ENTRIES

\* a store into the full cache has evicted key 1
C24_Witness ==
  /\ Len(searchCache) = SEARCH_CACHE_MAX_ENTRIES
  /\ searchCache[1].key = 2
  /\ searchCache[SEARCH_CACHE_MAX_ENTRIES].key = SEARCH_CACHE_MAX_ENTRIES + 1

\* the time of the last store of an entry
StoredAt(e) == e.expiresAt - SEARCH_CACHE_TTL_MS

\* C25: when a store exceeds the cap, the key evicted is the one whose most
\* recent store is the oldest.
C25_EvictsOldestStore ==
  [][(/\ Len(searchCache) = SEARCH_CACHE_MAX_ENTRIES
      /\ Len(searchCache') = SEARCH_CACHE_MAX_ENTRIES
      /\ \A i \in 1..Len(searchCache') : searchCache'[i].key # searchCache[1].key)
     => \A i \in 1..Len(searchCache) :
          StoredAt(searchCache[1]) <= StoredAt(searchCache[i])]_vars

\* the tuple a cache key stands for: the query normalised, the other fields as given
KeyTuple(in) ==
  <<toLowerCase(trim(in.query)), in.limit, in.userId, in.scope, in.deep, in.sessionId>>

\* C26: a search whose key equals the key of another search has the same
\* (normalised query, limit, user id, scope, deep flag, session id) tuple, so
\* that a cache hit returns results computed for the identical tuple only.
C26_KeyIdentifiesTuple ==
  input.fn = "makeSearchCacheKey" =>
    \A other \in KeyInputs : KeyOf(other) = output.key => KeyTuple(other) = KeyTuple(input)

\* what a poll step returned: the id handed to the turn or kept by the tick, 0 for null
PollReturn ==
  IF Len(injected') > Len(injected) THEN injected'[Len(injected')]
  ELSE IF tickFired' \ tickFired # {} THEN CHOOSE id \in tickFired' \ tickFired : TRUE
  ELSE 0

\* the entries a poll keeps: not fired and younger than ACTION_TTL_MS
Live(a) == ~a.fired /\ now - a.createdAt < ACTION_TTL_MS
Due(a) == ~a.fired /\ a.triggerAt <= now

C28_TriggerNotBeforeCreation ==
  \A i \in 1..Len(pendingActions) :
    pendingActions[i].triggerAt >= pendingActions[i].createdAt

\* the token estimate of the injected text: the overhead, and each memory's
\* estimate with 10 for its bullet
RECURSIVE InjectedTokens(_)
InjectedTokens(selected) ==
  IF selected = <<>> THEN MEMORY_OVERHEAD
  ELSE InjectedTokens(Tail(selected)) + estimateTokens(Head(selected).memory) + 10

\* C29: the memories injected are a prefix of the (score desc, created_at desc)
\* ordering of the input, and the token estimate of the injected text is at
\* most the budget, also when the first memory is injected truncated.
C29_PrefixWithinBudget ==
  input.fn = "buildMemoryContext" =>
    LET sel == output.selected
        ids == {sel[i].id : i \in 1..Len(sel)}
    IN /\ \A i \in 1..Len(sel) : \A j \in (i + 1)..Len(sel) :
            ~Before(input.memories[sel[j].id], input.memories[sel[i].id])
       /\ \A i \in 1..Len(sel) : \A k \in DOMAIN input.memories :
            k \notin ids => ~Before(input.memories[k], input.memories[sel[i].id])
       /\ sel # <<>> => InjectedTokens(sel) <= Budget(output.modelLimit)

\* C30: gpt-4-turbo and gpt-4o resolve to 128000, gpt-4-32k to 32768, plain
\* gpt-4 to 8192, deepseek-chat to 64000 and an unknown id to 8192.
C30_LimitOfOwnEntry ==
  input.fn = "buildMemoryContext" =>
    /\ input.modelId \in {"gpt-4-turbo", "gpt-4o"} => output.modelLimit = 128000
    /\ input.modelId = "gpt-4-32k" => output.modelLimit = 32768
    /\ input.modelId = "gpt-4" => output.modelLimit = 8192
    /\ input.modelId = "deepseek-chat" => output.modelLimit = 64000
    /\ input.modelId = "llama-3-70b" => output.modelLimit = 8192

\* the ids the searches of a memory_forget call found, and the candidates among
\* them: the exact case-insensitive text matches when there are any
FoundIds(in) ==
  (IF in.scope \in {"long-term", "all"} THEN Range(in.longTerm.ids) ELSE {})
    \cup (IF in.scope \in {"session", "all"} /\ in.session
            THEN Range(in.sessionHits.ids) ELSE {})
ExactIds(in) == {id \in FoundIds(in) : Normalized(in.text[id]) = Normalized(in.query)}
CandidateIds(in) == IF ExactIds(in) # {} THEN ExactIds(in) ELSE FoundIds(in)
DeletesOnlySingleCandidate ==
  /\ output.deleted # {} => Cardinality(CandidateIds(input)) = 1
                             /\ output.deleted = CandidateIds(input)
  /\ Cardinality(CandidateIds(input)) # 1 => output.deleted = {}
  /\ Cardinality(CandidateIds(input)) >= 2 /\ output.kind # "error" =>
       output.kind = "list" /\ Range(output.candidates) = CandidateIds(input)

\* C31 as stated: a call with a query and without deleteAll deletes a memory
\* only when exactly one candidate remains, and otherwise deletes nothing and
\* lists the candidates.
C31_QueryDeletesOnlySingleCandidate ==
  input.fn = "memory_forget" /\ input.query # NoQuery /\ ~input.deleteAll
    => DeletesOnlySingleCandidate

\* C31 amended: a call with a query, without a memory id and without deleteAll
\* deletes a memory only when exactly one candidate remains, and otherwise
\* deletes nothing and lists the candidates.
C31_QueryWithoutIdDeletesOnlySingleCandidate ==
  input.fn = "memory_forget" /\ input.query # NoQuery /\ ~input.deleteAll
    /\ input.memoryId = NoMemoryId
    => DeletesOnlySingleCandidate

\* two results of which one matches the query exactly: that one was deleted
C31_Witness ==
  /\ input.fn = "memory_forget" /\ input.query # NoQuery /\ ~input.deleteAll
  /\ input.memoryId = NoMemoryId
  /\ Cardinality(FoundIds(input)) >= 2
  /\ Cardinality(output.deleted) = 1

C38_SingleFlight ==
  /\ \A p \in ProviderIds :
       /\ Cardinality({n \in DOMAIN inits : inits[n].provider = p /\ inits[n].pc \in InitInFlight}) <= 1
       /\ Cardinality({n \in DOMAIN inits : inits[n].provider = p /\ inits[n].pc = "done"}) <= 1
       /\ memory[p] <=> \E n \in DOMAIN inits : inits[n].provider = p /\ inits[n].pc = "done"
  /\ \A c \in CallerIds :
       callers[c].init # 0 =>
         /\ inits[callers[c].init].provider = callers[c].provider
         /\ callers[c].joined \in InitInFlight \cup {"started"}
         /\ callers[c].pc = "waiting" <=> inits[callers[c].init].pc \in InitInFlight
         /\ callers[c].pc = "failed" <=> inits[callers[c].init].pc = "failed"
         /\ callers[c].pc = "ok" <=> inits[callers[c].init].pc = "done"

\* two callers shared an initialisation that failed, and a later call started
\* a new one for the same provider
C38_Witness ==
  \E a \in CallerIds : \E b \in CallerIds \ {a} : \E c \in CallerIds \ {a, b} :
    /\ callers[a].init = callers[b].init /\ callers[a].init # 0
    /\ callers[a].pc = "failed" /\ callers[b].pc = "failed"
    /\ callers[c].provider = callers[a].provider
    /\ callers[c].init # 0 /\ callers[c].init # callers[a].init

\* C33: a reader of the status file never finds a partially written snapshot.
C33_SnapshotNeverPartial == statusFile.by # "partial"

\* C34: import-legacy hands each line of the legacy file whose trimmed length is
\* greater than 5 to provider.add exactly once, in file order, and no other line.
C34_OneAddPerQualifyingLine ==
  (input.fn = "import_legacy" /\ input.exists)
    => output.adds = SelectSeq(split(input.content, "\n"), Qualifies)

\* C35: no observed message is handed to provider.add more than once: over
\* flushes started by a timer, flushes started by service.stop and schedule
\* calls made while a flush awaits provider.add, an observation occurs in at
\* most one delivered batch, and once in it.
C35_DeliveredAtMostOnce ==
  \A f, g \in DOMAIN delivered :
    \A i \in DOMAIN delivered[f].payload, j \in DOMAIN delivered[g].payload :
      delivered[f].payload[i].obs = delivered[g].payload[j].obs => (f = g /\ i = j)
\* service.stop has flushed a key whose earlier flush still awaits provider.add:
\* messages were scheduled under that key during the wait
C35_Witness ==
  /\ atStop.called
  /\ \E f, g \in DOMAIN flushes :
       /\ f < g
       /\ flushes[f].key = flushes[g].key
       /\ flushes[f].pc = "adding" /\ flushes[g].pc = "adding"
       /\ g \in atStop.inflight

\* C39: between handler steps a capture buffer key has an armed flush timer
\* exactly when it has a non-empty buffer.
C39_TimerIffBuffer ==
  \A key \in BufferKeys :
    HasTimer(captureTimers, key)
      <=> (/\ BufferIndex(captureBuffers, key) # 0
           /\ captureBuffers[BufferIndex(captureBuffers, key)].messages # <<>>)
\* a key whose flush awaits provider.add has a buffer and a timer again, for
\* the messages scheduled during the wait
C39_Witness ==
  \E f \in DOMAIN flushes :
    /\ flushes[f].pc = "adding"
    /\ HasTimer(captureTimers, flushes[f].key)
    /\ BufferIndex(captureBuffers, flushes[f].key) # 0

\* C36: an action that a poll of before_agent_start returns, and thereby marks
\* fired, is in the system context returned for that turn: no action becomes
\* fired by before_agent_start without being injected.
C36_FiredByTurnIsInjected ==
  [][\A i \in 1..Len(pendingActions') :
       LET a == pendingActions'[i] IN
       (/\ a.fired
        /\ HasAction(pendingActions, a.id) /\ ~ActionOf(pendingActions, a.id).fired
        /\ a.id \notin tickFired')
       => \E j \in 1..Len(injected') : injected'[j] = a.id]_vars
\* an action fired at its first poll, by before_agent_start, and injected
C36_Witness ==
  \E i \in 1..Len(pendingActions) :
    /\ pendingActions[i].fired
    /\ pendingActions[i].deliveryAttempts = 0
    /\ pendingActions[i].id \notin tickFired
    /\ \E j \in 1..Len(injected) : injected[j] = pendingActions[i].id

\* C37: while the heartbeat keeps polling, an unfired action whose trigger time
\* has passed is returned by a poll before it expires: it does not leave the
\* list unfired.
C37_DueReturnedBeforeExpiry ==
  [][\A i \in 1..Len(pendingActions) :
       LET a == pendingActions[i] IN
       (~a.fired /\ a.triggerAt <= now /\ now - a.createdAt < ACTION_TTL_MS)
         => HasAction(pendingActions', a.id)]_vars

\* the lines of the archive that hold memory m
ArchiveLinesOf(m) == {i \in 1..Len(archive) : archive[i] = m}

\* C40: when a prune has returned, every memory of its overflow slice is in
\* exactly one tier: still in the hot store, or once in the archive; never in
\* both and never twice in the archive.
C40_ExactlyOneTier ==
  \A p \in PruneIds :
    prunes[p].pc = "done" /\ prunes[p].toDelete # <<>>
      => \A m \in Range(prunes[p].toDelete) :
           /\ Cardinality(ArchiveLinesOf(m)) <= 1
           /\ (m \in prunes[p].hotAtReturn) # (Cardinality(ArchiveLinesOf(m)) = 1)

====
